---- MODULE Spec2Model ----
(***************************************************************************)
(* Provider-resilience and caching layer of the stock analysis app:        *)
(*   request-queue.ts  (APIRequestQueue, finnhubQueue, alphaVantageQueue)  *)
(*   retry-helper.ts   (isRateLimitError, retryWithBackoff,                *)
(*                      retryWhenRateLimited)                              *)
(*   cache.ts          (CompanyDataCache, isRateLimited, setRateLimited,   *)
(*                      checkRateLimit)                                    *)
(*   stock-api.ts      (key health, getOHLCFrom..., getStockData,          *)
(*                      getCompanyNewsWithFallback,                        *)
(*                      getCompanyProfileWithFallback)                     *)
(*   finnhub.ts / alphavantage.ts (the two provider adapters)              *)
(*                                                                         *)
(* One action is one run-to-completion step of the JavaScript event loop:  *)
(* the code between two suspension points (a timer, a network response, a  *)
(* queue wait).                                                            *)
(*                                                                         *)
(* Time is in milliseconds, as Date.now() is.  The code reads the clock    *)
(* only to compare it with times it stored earlier, so the passage of d ms *)
(* is represented by moving every stored time d ms into the past while the *)
(* present instant `now` keeps its value (the passage of time is a change  *)
(* of origin).  Stored times further in the past than the longest interval *)
(* the code compares them with are indistinguishable and saturate there.   *)
(* Times the code compares on the scale of hours (cache expiry, the        *)
(* rate-limited window) age in whole hours only.  A timer that is due      *)
(* fires before the clock moves on, and the continuation of an awaited     *)
(* promise runs before any other step, as microtasks do.                   *)
(***************************************************************************)
EXTENDS Integers, Sequences, FiniteSets, TLC

VARIABLES
    apiQueue,         \* provider -> the APIRequestQueue object of that provider
    timers,           \* pending 10 s re-enqueue timers of the queues
    futures,          \* promise of every request created by enqueue, by id
    rateLimitBudget,  \* how many more rate-limit failures the environment may produce
    companyDataCache, \* cache.ts: the CompanyDataCache singleton
    isRateLimited,    \* cache.ts: export let isRateLimited
    rateLimitedUntil, \* cache.ts: export let rateLimitedUntil
    apiKeyStatus,     \* stock-api.ts: key -> ApiKeyStatus
    currentConfig,    \* stock-api.ts: currentConfig
    calls             \* the calls of the operation under study (getStockData, news,
                      \* profile, or the last cache call): position and locals of each

queueVars == <<apiQueue, timers, futures, rateLimitBudget>>
stockVars == <<companyDataCache, isRateLimited, rateLimitedUntil, apiKeyStatus,
               currentConfig, calls>>
vars == <<queueVars, stockVars>>

-----------------------------------------------------------------------------
(* Bounds of the model *)

MaxEnqueues == 2          \* enqueue calls made by callers per behaviour
MaxRateLimits == 1        \* rate-limit failures the environment produces per behaviour
MaxCalls == 2             \* getStockData calls per behaviour
MaxActive == 1            \* getStockData calls in progress at the same time

Priorities == {1, 2}
QueueDeltas == {1000, 10000}

Max(a, b) == IF a >= b THEN a ELSE b
Min(a, b) == IF a <= b THEN a ELSE b

HourMs == 60 * 60 * 1000
DayMs == 24 * HourMs

\* Date.now() at the present instant
now == 10 * DayMs

\* A stored time after d ms have passed; 0 (never set) stays 0.
Shift(x, d, horizon) == IF x = 0 THEN 0 ELSE Max(x - d, now - horizon)

-----------------------------------------------------------------------------
(* request-queue.ts *)

Providers == {"Finnhub", "AlphaVantage"}

\* new APIRequestQueue('Finnhub', 30, 200), new APIRequestQueue('AlphaVantage', 5, 500)
requestsPerMinute(p) == IF p = "Finnhub" THEN 30 ELSE 5
minDelayMs(p) == IF p = "Finnhub" THEN 200 ELSE 500

RequeueDelayMs == 10000

\* A time series is known by its origin and its number of bars.
NoSeries == [source |-> "none", bars |-> 0]
Series(source, bars) == [source |-> source, bars |-> bars]

\* What a data fetch yields: { timeSeriesData, significantMoves }
NoData == [timeSeriesData |-> NoSeries, significantMoves |-> 0]

\* The execute closure of a request: its kind ("task" for an opaque one,
\* "ohlc" for the fetch of getOHLCFrom...), what an ohlc closure captured, and
\* the API key getOHLCFrom... had selected when it made the closure.
NoTask == [kind |-> "none", symbol |-> "", n |-> 0, apiKey |-> "null"]
NoRequest == [id |-> 0, task |-> NoTask, priority |-> 0, timestamp |-> 0]

\* The comparator of queue.sort: TRUE when a must come before b.
Before(a, b) ==
    IF a.priority # b.priority THEN a.priority > b.priority
    ELSE a.timestamp < b.timestamp

\* Array.prototype.sort is stable: r goes in front of the first element it
\* must precede and behind every element it compares equal to.
RECURSIVE InsertSorted(_, _)
InsertSorted(s, r) ==
    IF s = <<>> THEN <<r>>
    ELSE IF Before(r, Head(s)) THEN <<r>> \o s
    ELSE <<Head(s)>> \o InsertSorted(Tail(s), r)

SortQueueKeepsOrder(s) == s

RECURSIVE SortQueue(_)
\* this.queue.sort(comparator)
SortQueue(s) ==
    IF s = <<>> THEN <<>>
    ELSE InsertSorted(SortQueue(SubSeq(s, 1, Len(s) - 1)), s[Len(s)])

PacingDelayMinOnly(p, timeSinceLastRequest) == minDelayMs(p)

\* delay = Math.max(minDelayMs, 60000 / requestsPerMinute - timeSinceLastRequest)
PacingDelay(p, timeSinceLastRequest) ==
    Max(minDelayMs(p), (60000 \div requestsPerMinute(p)) - timeSinceLastRequest)

ProcessQueueNoWorker(q, p, t) == [q EXCEPT !.processing = Len(q.queue) # 0]

\* processQueue up to its first suspension point.  With an empty queue it
\* clears `processing` and ends; otherwise it sets `processing` and sleeps
\* for the pacing delay (which is positive, so the await is always taken).
ProcessQueue(q, p, t) ==
    IF Len(q.queue) = 0
    THEN [q EXCEPT !.processing = FALSE]
    ELSE [q EXCEPT !.processing = TRUE,
                   !.workers = Append(@, [pc |-> "sleep",
                                          wake |-> t + PacingDelay(p, t - q.lastRequestTime),
                                          request |-> NoRequest,
                                          cachedData |-> NoData,
                                          keyLimited |-> FALSE])]

StartsProcessingAlways(q) == TRUE

\* if (!this.processing) this.processQueue()
StartsProcessing(q) == ~q.processing

\* enqueue: push, sort, start processing when idle.
Enqueue(q, p, request, t) ==
    LET pushed == [q EXCEPT !.queue = SortQueue(Append(@, request))]
    IN  IF StartsProcessing(pushed) THEN ProcessQueue(pushed, p, t) ELSE pushed

RemoveAt(s, i) == SubSeq(s, 1, i - 1) \o SubSeq(s, i + 1, Len(s))

-----------------------------------------------------------------------------
(* Errors.  An error is named by the message it carries; Phrases gives the   *)
(* marker phrases that occur in the lower-cased message.                     *)

Phrases(err) ==
    CASE err = "RateLimitReached" -> {"rate limit"}     \* 'Rate limit reached'
      [] err = "QueueRateLimit"   -> {"rate limit"}     \* 'Rate limit hit for X API'
      [] err = "AllKeysLimited"   -> {"rate limit"}     \* 'All X API keys are currently rate limited'
      [] err = "RateLimitExceeded" -> {"rate limit"}    \* 'Alpha Vantage API rate limit exceeded'
      [] err = "TooManyRequests"  -> {"too many requests"}
      [] err = "Http429"          -> {"429"}            \* 'HTTP error! status: 429'
      [] OTHER                    -> {}                 \* HttpError, InvalidResponse, QueueCleared

QueueSeesEveryError(err) == TRUE

\* The error test of processQueue's catch block.
QueueSeesRateLimit(err) ==
    "rate limit" \in Phrases(err) \/ "too many requests" \in Phrases(err)

\* A worker wakes from the pacing sleep: shift the head request and start it.
Dispatch(q, p, i, t) ==
    IF Len(q.queue) = 0
    THEN ProcessQueue([q EXCEPT !.workers = RemoveAt(@, i)], p, t)
    ELSE [q EXCEPT !.queue = Tail(@),
                   !.lastGap = IF q.lastRequestTime = 0 THEN -1 ELSE t - q.lastRequestTime,
                   !.lastRequestTime = t,
                   !.workers[i] = [pc |-> "exec", wake |-> 0, request |-> Head(q.queue),
                                   cachedData |-> NoData, keyLimited |-> FALSE]]

\* The promise of a request after its task ended with `outcome`
\* ("ok" or the error thrown).
Settle(outcome) ==
    IF outcome = "ok" THEN [state |-> "resolved", error |-> "none"]
    ELSE IF QueueSeesRateLimit(outcome)
         THEN [state |-> "rejected", error |-> "QueueRateLimit"]
         ELSE [state |-> "rejected", error |-> outcome]

\* The promise enqueue returns, for a request entering queue q.  Beside the
\* promise itself the record keeps what the request was enqueued with and a
\* history of it: thrown is how its task ended ("ok" or the error thrown),
\* settles counts the calls of resolve and reject, parent and
\* waited tell which rejected request a re-enqueued one repeats and how long
\* after that rejection it was enqueued, clearsBefore how many requests
\* clear() had dropped before.
NewFuture(origin, request, p, q) ==
    [state |-> "pending", error |-> "none", result |-> NoData,
     origin |-> origin, task |-> request.task, provider |-> p,
     priority |-> request.priority, thrown |-> "none", settles |-> 0,
     parent |-> 0, waited |-> 0, clearsBefore |-> q.cleared]

RequeueTimersAtOnce(p, request, outcome, t) ==
    IF outcome # "ok" /\ QueueSeesRateLimit(outcome)
    THEN {[provider |-> p, task |-> request.task, priority |-> request.priority + 1,
           due |-> t, parent |-> request.id, armed |-> t]}
    ELSE {}

\* setTimeout(() => this.enqueue(request.execute, request.priority + 1), 10000)
\* parent is the request that failed and armed the time of its failure.
RequeueTimers(p, request, outcome, t) ==
    IF outcome # "ok" /\ QueueSeesRateLimit(outcome)
    THEN {[provider |-> p, task |-> request.task, priority |-> request.priority + 1,
           due |-> t + RequeueDelayMs, parent |-> request.id, armed |-> t]}
    ELSE {}

ClearKeepsQueue(q) == [q EXCEPT !.cleared = @ + Len(q.queue)]

\* clear(): the pending requests are dropped (their promises rejected);
\* `cleared` adds up the counts the calls of clear() have returned.
Clear(q) == [q EXCEPT !.queue = <<>>, !.cleared = @ + Len(q.queue)]

InFlight(p) == {i \in DOMAIN apiQueue[p].workers : apiQueue[p].workers[i].pc = "exec"}

-----------------------------------------------------------------------------
(* cache.ts: CompanyDataCache *)

\* new CompanyDataCache(20), outside a browser (no localStorage)
NewCache == [cache |-> <<>>, accessOrder |-> <<>>, maxSize |-> 20]

\* What get() returns for `undefined`: no symbol, no series, no profile.
Undefined ==
    [symbol |-> "", name |-> "", timeSeriesData |-> NoSeries, significantMoves |-> 0,
     companyInfo |-> "null", timestamp |-> 0, lastUpdated |-> 0, expiresAt |-> 0]

RECURSIVE Without(_, _)
\* accessOrder.filter(s => s !== symbol)
Without(order, symbol) ==
    IF order = <<>> THEN <<>>
    ELSE IF Head(order) = symbol THEN Without(Tail(order), symbol)
    ELSE <<Head(order)>> \o Without(Tail(order), symbol)

\* data.expiresAt && data.expiresAt < Date.now()
IsExpired(entry) == entry.expiresAt # 0 /\ entry.expiresAt < now

\* get(symbol): what it returns ...
CacheGetResult(c, symbol) ==
    IF symbol \notin DOMAIN c.cache THEN Undefined
    ELSE IF IsExpired(c.cache[symbol]) THEN Undefined
    ELSE c.cache[symbol]

CacheGetKeepsOrder(c, symbol) == c

\* ... and the cache after it: an expired entry moves to the end of the
\* access order, a live entry to its front; the entry itself is kept.
CacheGet(c, symbol) ==
    IF symbol \notin DOMAIN c.cache THEN c
    ELSE IF IsExpired(c.cache[symbol])
         THEN [c EXCEPT !.accessOrder = Append(Without(@, symbol), symbol)]
         ELSE [c EXCEPT !.accessOrder = <<symbol>> \o Without(@, symbol)]

\* The entry set() starts from when the symbol has none.
FreshEntry(symbol) ==
    [symbol |-> symbol, name |-> "", timeSeriesData |-> NoSeries, significantMoves |-> 0,
     companyInfo |-> "null", timestamp |-> 0, lastUpdated |-> now,
     expiresAt |-> now + 24 * HourMs]

\* The default expiration of set(): 7 days for a company profile, 1 hour
\* (market hours) or 12 hours for a non-empty time series, 24 hours otherwise.
ExpirationTime(data, isMarketHours) ==
    IF "companyInfo" \in DOMAIN data /\ data.companyInfo # "null" THEN 7 * DayMs
    ELSE IF "timeSeriesData" \in DOMAIN data /\ data.timeSeriesData.bars > 0
         THEN (IF isMarketHours THEN HourMs ELSE 12 * HourMs)
         ELSE 24 * HourMs

MergeReplaces(existing, data, expirationTime) ==
    [f \in DOMAIN existing |->
        IF f = "lastUpdated" THEN now
        ELSE IF f = "expiresAt" THEN now + expirationTime
        ELSE IF f \in DOMAIN data THEN data[f]
        ELSE Undefined[f]]

\* { ...existingData, ...data, lastUpdated: Date.now(), expiresAt }
Merge(existing, data, expirationTime) ==
    [f \in DOMAIN existing |->
        IF f = "lastUpdated" THEN now
        ELSE IF f = "expiresAt" THEN now + expirationTime
        ELSE IF f \in DOMAIN data THEN data[f]
        ELSE existing[f]]

MapPut(m, k, v) == [x \in DOMAIN m \cup {k} |-> IF x = k THEN v ELSE m[x]]
MapRemove(m, k) == [x \in DOMAIN m \ {k} |-> m[x]]

\* set(symbol, data, options) once the expiration time is known: merge, move
\* to the front, evict the last of the access order when it has grown
\* beyond maxSize.
CacheSetFor(c, symbol, data, expirationTime) ==
    LET existing == IF symbol \in DOMAIN c.cache THEN c.cache[symbol] ELSE FreshEntry(symbol)
        updated == Merge(existing, data, expirationTime)
        order == <<symbol>> \o Without(c.accessOrder, symbol)
        stored == MapPut(c.cache, symbol, updated)
    IN  IF Len(order) > c.maxSize
        THEN [c EXCEPT !.cache = MapRemove(stored, order[Len(order)]),
                       !.accessOrder = SubSeq(order, 1, Len(order) - 1)]
        ELSE [c EXCEPT !.cache = stored, !.accessOrder = order]

\* set(symbol, data), without options
CacheSet(c, symbol, data, isMarketHours) ==
    CacheSetFor(c, symbol, data, ExpirationTime(data, isMarketHours))

\* let expirationTime = options.expirationTime; if (!expirationTime) ...
OptionsExpiration(options, data, isMarketHours) ==
    IF "expirationTime" \in DOMAIN options /\ options.expirationTime # 0
    THEN options.expirationTime
    ELSE ExpirationTime(data, isMarketHours)

\* set(symbol, data, options)
CacheSetWith(c, symbol, data, options, isMarketHours) ==
    CacheSetFor(c, symbol, data, OptionsExpiration(options, data, isMarketHours))

-----------------------------------------------------------------------------
(* cache.ts: the process-wide flag, as the pair <<isRateLimited, rateLimitedUntil>> *)

RateLimitFlagMs == 60 * 60 * 1000

\* setRateLimited(limited)
SetRateLimited(limited) == IF limited THEN <<TRUE, now + RateLimitFlagMs>> ELSE <<FALSE, 0>>

\* checkRateLimit(): the flag after the call
CheckedRateLimit(flag) ==
    IF flag[2] > 0 /\ now > flag[2] THEN SetRateLimited(FALSE) ELSE flag

-----------------------------------------------------------------------------
(* retry-helper.ts *)

\* isRateLimitError(error)
IsRateLimitError(err) ==
    Phrases(err) \cap {"rate limit", "too many requests", "429", "quota exceeded",
                       "api calls exceeded", "please slow down"} # {}

\* retryWhenRateLimited as getStockData calls it: maxRetries 2, and the
\* defaults initialDelayMs 2000, maxDelayMs 60000, backoffFactor 3
maxRetries == 2
initialDelayMs == 2000
maxDelayMs == 60000
backoffFactor == 3
Jitter == {-100, 0, 100}

GivesUpWhenNotRetryable(err, attempt) == ~IsRateLimitError(err)

\* if (!retryCondition(error) || attempt === maxRetries) throw error
GivesUp(err, attempt) == ~IsRateLimitError(err) \/ attempt = maxRetries

\* delay = Math.min(delay * backoffFactor, maxDelayMs)
BackoffDelayUncapped(delay, factor, maxDelay) == delay * factor

\* delay = Math.min(delay * backoffFactor, maxDelayMs)
BackoffDelay(delay, factor, maxDelay) == Min(delay * factor, maxDelay)

NextDelay(delay) == BackoffDelay(delay, backoffFactor, maxDelayMs)

-----------------------------------------------------------------------------
(* stock-api.ts: configuration, key health, cache helpers *)

OtherProvider(p) == IF p = "AlphaVantage" THEN "Finnhub" ELSE "AlphaVantage"

\* defaultConfig, with one API key per provider
defaultConfig ==
    [preferredOHLCProvider |-> "Finnhub", preferredNewsProvider |-> "Finnhub",
     enableFallback |-> TRUE, cacheResults |-> TRUE,
     apiKey |-> [p \in Providers |-> IF p = "Finnhub" THEN <<"fk1">> ELSE <<"ak1">>]]

KeyCooldownMs == 60000

\* isKeyRateLimited(key)
IsKeyRateLimited(status, key) ==
    key \in DOMAIN status /\ status[key].rateLimitedUntil > now

NewKeyStatus(provider) ==
    [provider |-> provider, lastUsed |-> now, errorCount |-> 0, rateLimitedUntil |-> 0]

KeyStatusOf(status, key, provider) ==
    IF key \in DOMAIN status THEN status[key] ELSE NewKeyStatus(provider)

\* markKeyRateLimited without errorCount++
MarkKeyRateLimitedKeepsCount(status, key, provider) ==
    MapPut(status, key,
           [KeyStatusOf(status, key, provider) EXCEPT
               !.rateLimitedUntil = now + KeyCooldownMs])

\* markKeyRateLimited(key, provider)
MarkKeyRateLimited(status, key, provider) ==
    MapPut(status, key,
           [KeyStatusOf(status, key, provider) EXCEPT
               !.errorCount = @ + 1, !.rateLimitedUntil = now + KeyCooldownMs])

\* markKeySuccess(key, provider)
MarkKeySuccess(status, key, provider) ==
    MapPut(status, key,
           [KeyStatusOf(status, key, provider) EXCEPT
               !.errorCount = 0, !.lastUsed = now, !.rateLimitedUntil = 0])

\* getAvailableApiKey(provider): the first key of the provider that is not
\* rate limited, "null" when there is none
RECURSIVE FirstAvailable(_, _)
FirstAvailable(status, keys) ==
    IF keys = <<>> THEN "null"
    ELSE IF ~IsKeyRateLimited(status, Head(keys)) THEN Head(keys)
    ELSE FirstAvailable(status, Tail(keys))

GetAvailableApiKey(status, config, provider) == FirstAvailable(status, config.apiKey[provider])

ProviderChainPreferredOnly(config) == <<config.preferredOHLCProvider>>

\* The provider list of getStockData
ProviderChain(config) ==
    <<config.preferredOHLCProvider>> \o
    (IF config.enableFallback THEN <<OtherProvider(config.preferredOHLCProvider)>> ELSE <<>>)

\* checkCache(symbol): the cached series and moves; null (NoData) without a series
CheckCache(config, c, symbol) ==
    IF config.cacheResults /\ CacheGetResult(c, symbol).timeSeriesData.bars > 0
    THEN [timeSeriesData |-> CacheGetResult(c, symbol).timeSeriesData,
          significantMoves |-> CacheGetResult(c, symbol).significantMoves]
    ELSE NoData

\* The cache after checkCache(symbol)
CheckCacheTouch(config, c, symbol) ==
    IF config.cacheResults THEN CacheGet(c, symbol) ELSE c

\* cachedData.timestamp || 0
TimestampOf(cachedData) == IF "timestamp" \in DOMAIN cachedData THEN cachedData.timestamp ELSE 0

\* maxCacheAge of getStockData
MaxCacheAge(isMarketHours) == IF isMarketHours THEN HourMs ELSE 6 * HourMs

\* cacheAge < maxCacheAge
IsFreshEnough(cachedData, isMarketHours) ==
    now - TimestampOf(cachedData) < MaxCacheAge(isMarketHours)

\* symbol.toUpperCase()
ToUpperCase(symbol) == IF symbol = "aapl" THEN "AAPL" ELSE symbol

\* The error test of getStockData's catch block
StockSeesRateLimit(err) ==
    Phrases(err) \cap {"rate limit", "too many requests", "429"} # {}

-----------------------------------------------------------------------------
(* finnhub.ts and alphavantage.ts: what a fetch does with the response *)

FinnhubResponses == {"429", "httpError", "invalid", "ok"}
AlphaVantageResponses == {"rateLimitInfo", "noSeries", "error", "ok"}
Responses(p) == IF p = "Finnhub" THEN FinnhubResponses ELSE AlphaVantageResponses

\* The bars a provider sends; MOCK_DATA has 90
ProviderData(source) ==
    [timeSeriesData |-> Series(source, IF source = "Finnhub" THEN 63 ELSE 90),
     significantMoves |-> IF source = "mock" THEN 5 ELSE 2]

\* "ok" or the error the execute closure throws.  getDailyTimeSeries
\* catches every error, so an Alpha Vantage fetch never throws.
FetchOutcome(p, response) ==
    IF p = "Finnhub"
    THEN CASE response = "429"       -> "RateLimitReached"
           [] response = "httpError" -> "HttpError"
           [] response = "invalid"   -> "InvalidResponse"
           [] OTHER                  -> "ok"
    ELSE "ok"

\* What the fetch resolves with; cachedData is what getDailyTimeSeries read
\* from the cache before the request.
FetchData(p, response, cachedData) ==
    IF p = "Finnhub" THEN ProviderData("Finnhub")
    ELSE IF response = "ok" THEN ProviderData("AlphaVantage")
    ELSE IF cachedData.timeSeriesData.bars > 0 THEN cachedData
    ELSE ProviderData("mock")

\* The setRateLimited call of the adapter: TRUE on a rate limit or an
\* error, FALSE when a response was received.
FetchSetsRateLimited(p, response) ==
    IF p = "Finnhub" THEN response \in {"429", "httpError"}
    ELSE response \in {"rateLimitInfo", "error"}

-----------------------------------------------------------------------------
(* The queue on its own: callers enqueue opaque tasks.                       *)

TaskOutcomes == {"ok", "RateLimitReached", "TooManyRequests", "Http429", "HttpError"}

\* lastGap: time between the starts of the last two dispatches (-1: fewer than two)
NewQueue == [queue |-> <<>>, processing |-> FALSE, lastRequestTime |-> 0,
             lastGap |-> -1, workers |-> <<>>, cleared |-> 0]

InitQueue ==
    /\ apiQueue = [p \in Providers |-> NewQueue]
    /\ timers = {}
    /\ futures = <<>>
    /\ rateLimitBudget = MaxRateLimits
    /\ companyDataCache = NewCache
    /\ isRateLimited = FALSE
    /\ rateLimitedUntil = 0
    /\ apiKeyStatus = <<>>
    /\ currentConfig = defaultConfig
    /\ calls = <<>>

CallerEnqueues == Cardinality({i \in DOMAIN futures : futures[i].origin = "caller"})

EnqueueTask(p, priority) ==
    /\ CallerEnqueues < MaxEnqueues
    /\ \A i \in DOMAIN futures : futures[i].provider = p
    /\ LET id == Len(futures) + 1
           task == [kind |-> "task", symbol |-> "", n |-> id, apiKey |-> "null"]
           request == [id |-> id, task |-> task, priority |-> priority, timestamp |-> now]
       IN  /\ apiQueue' = [apiQueue EXCEPT ![p] = Enqueue(@, p, request, now)]
           /\ futures' = Append(futures, NewFuture("caller", request, p, apiQueue[p]))
    /\ UNCHANGED <<timers, rateLimitBudget, stockVars>>

\* getDailyTimeSeries starts with companyDataCache.get(symbol)
ReadsCacheFirst(p, request) == request.task.kind = "ohlc" /\ p = "AlphaVantage"

\* The pacing sleep of a worker ends: the head request is dispatched and its
\* execute closure runs up to the network request.  keyLimited records
\* whether the key the request was made for is in its cooldown at this moment.
WorkerWakes(p, i) ==
    /\ i \in DOMAIN apiQueue[p].workers
    /\ apiQueue[p].workers[i].pc = "sleep"
    /\ now >= apiQueue[p].workers[i].wake
    /\ LET q == apiQueue[p]
           request == IF Len(q.queue) > 0 THEN Head(q.queue) ELSE NoRequest
           found == CacheGetResult(companyDataCache, request.task.symbol)
           keyLimited == IsKeyRateLimited(apiKeyStatus, request.task.apiKey)
       IN  IF Len(q.queue) = 0
           THEN /\ apiQueue' = [apiQueue EXCEPT ![p] = Dispatch(@, p, i, now)]
                /\ UNCHANGED companyDataCache
           ELSE IF ReadsCacheFirst(p, request)
           THEN /\ apiQueue' = [apiQueue EXCEPT ![p] =
                                  [Dispatch(@, p, i, now) EXCEPT
                                      !.workers[i].keyLimited = keyLimited,
                                      !.workers[i].cachedData =
                                         [timeSeriesData |-> found.timeSeriesData,
                                          significantMoves |-> found.significantMoves]]]
                /\ companyDataCache' = CacheGet(companyDataCache, request.task.symbol)
           ELSE /\ apiQueue' = [apiQueue EXCEPT ![p] =
                                  [Dispatch(@, p, i, now) EXCEPT
                                      !.workers[i].keyLimited = keyLimited]]
                /\ UNCHANGED companyDataCache
    /\ UNCHANGED <<timers, futures, rateLimitBudget, isRateLimited, rateLimitedUntil,
                   apiKeyStatus, currentConfig, calls>>

TaskEnds(p, i, outcome) ==
    /\ i \in InFlight(p)
    /\ QueueSeesRateLimit(outcome) => rateLimitBudget > 0
    /\ LET request == apiQueue[p].workers[i].request
       IN  /\ futures' = [futures EXCEPT ![request.id] =
                              [@ EXCEPT !.state = Settle(outcome).state,
                                        !.error = Settle(outcome).error,
                                        !.thrown = outcome,
                                        !.settles = @ + 1]]
           /\ timers' = timers \cup RequeueTimers(p, request, outcome, now)
           /\ apiQueue' = [apiQueue EXCEPT ![p] =
                              ProcessQueue([@ EXCEPT !.workers = RemoveAt(@, i)], p, now)]
    /\ rateLimitBudget' = IF QueueSeesRateLimit(outcome)
                           THEN rateLimitBudget - 1 ELSE rateLimitBudget
    /\ UNCHANGED stockVars

RequeueFires(tm) ==
    /\ tm \in timers
    /\ now >= tm.due
    /\ LET id == Len(futures) + 1
           request == [id |-> id, task |-> tm.task, priority |-> tm.priority,
                       timestamp |-> now]
       IN  /\ apiQueue' = [apiQueue EXCEPT ![tm.provider] = Enqueue(@, tm.provider, request, now)]
           /\ futures' = Append(futures,
                                [NewFuture("requeue", request, tm.provider, apiQueue[tm.provider])
                                    EXCEPT !.parent = tm.parent, !.waited = now - tm.armed])
    /\ timers' = timers \ {tm}
    /\ UNCHANGED <<rateLimitBudget, stockVars>>

ClearQueue(p) ==
    /\ Len(apiQueue[p].queue) > 0
    /\ futures' = [i \in DOMAIN futures |->
                      IF \E k \in DOMAIN apiQueue[p].queue : apiQueue[p].queue[k].id = i
                      THEN [futures[i] EXCEPT !.state = "rejected", !.error = "QueueCleared",
                                              !.settles = @ + 1]
                      ELSE futures[i]]
    /\ apiQueue' = [apiQueue EXCEPT ![p] = Clear(@)]
    /\ UNCHANGED <<timers, rateLimitBudget, stockVars>>

\* d ms pass for the queue object of provider p.
AgeQueue(q, p, d) ==
    [q EXCEPT !.lastRequestTime = Shift(@, d, 60000 \div requestsPerMinute(p)),
              !.queue = [k \in DOMAIN @ |-> [@[k] EXCEPT !.timestamp = Shift(@, d, 1)]],
              !.workers = [k \in DOMAIN @ |-> [@[k] EXCEPT !.wake = Shift(@, d, 0)]]]

AgeTimers(d) ==
    {[tm EXCEPT !.due = Shift(@, d, 0), !.armed = Shift(@, d, RequeueDelayMs)] : tm \in timers}

TickQueue(d) ==
    /\ apiQueue' = [p \in Providers |-> AgeQueue(apiQueue[p], p, d)]
    /\ timers' = AgeTimers(d)
    /\ UNCHANGED <<futures, rateLimitBudget, stockVars>>

NextQueue ==
    \/ \E p \in Providers, priority \in Priorities : EnqueueTask(p, priority)
    \/ \E p \in Providers : \E i \in DOMAIN apiQueue[p].workers : WorkerWakes(p, i)
    \/ \E p \in Providers, outcome \in TaskOutcomes :
          \E i \in DOMAIN apiQueue[p].workers : TaskEnds(p, i, outcome)
    \/ \E tm \in timers : RequeueFires(tm)
    \/ \E p \in Providers : ClearQueue(p)
    \/ \E d \in QueueDeltas : TickQueue(d)

SpecQueue == InitQueue /\ [][NextQueue]_vars

\* Timers fire, time passes and a dispatched task ends: setTimeout callbacks
\* are run by the event loop, and tasks are taken to terminate.
FairQueue ==
    /\ WF_vars(\E p \in Providers : \E i \in DOMAIN apiQueue[p].workers : WorkerWakes(p, i))
    /\ WF_vars(\E p \in Providers, outcome \in TaskOutcomes :
                  \E i \in DOMAIN apiQueue[p].workers : TaskEnds(p, i, outcome))
    /\ WF_vars(\E tm \in timers : RequeueFires(tm))
    /\ WF_vars(\E d \in QueueDeltas : TickQueue(d))

SpecQueueFair == SpecQueue /\ FairQueue

-----------------------------------------------------------------------------
(* getStockData and all it drives.                                          *)
(*                                                                           *)
(* A call is at one of these positions:                                      *)
(*   "attempt"    about to invoke getOHLCFrom<provider>                      *)
(*   "awaitQueue" awaiting the promise of the queue                          *)
(*   "caught"     in the catch block of retryWithBackoff                     *)
(*   "backoff"    in sleep(finalDelay)                                       *)
(*   "allFailed"  behind the provider loop                                   *)
(*   "done"       returned or threw                                          *)
(* The continuation of a settled await runs before any timer or response,    *)
(* so while a call is Busy nothing else takes a step.                        *)
(*                                                                           *)
(* Of every call of retryWhenRateLimited the call keeps a history: fnCalls   *)
(* counts the invocations of fn, sawRateLimit tells whether an error of an   *)
(* attempt was classified as rate limiting, and when it ends, `runs` gets    *)
(* the two with the error it threw ("none" when it returned) and the         *)
(* process-wide flag at that moment.                                         *)

Symbols == {"AAPL", "aapl"}

\* finnhubConfig.apiKey: a single key or a list of keys
FinnhubKeys == {<<"fk1">>, <<"fk1", "fk2">>}
StockDeltas == {10000, 12 * HourMs}

NewCall(rawSymbol, forceRefresh) ==
    [pc |-> "attempt", rawSymbol |-> rawSymbol, symbol |-> ToUpperCase(rawSymbol),
     forceRefresh |-> forceRefresh, index |-> 1, attempt |-> 1, delay |-> initialDelayMs,
     wake |-> 0, apiKey |-> "null", request |-> 0, error |-> "none", lastError |-> "none",
     outcome |-> "none", from |-> "none", result |-> NoData,
     invoked |-> {}, cacheReads |-> 0, cacheKeys |-> {}, flagAtReturn |-> FALSE, keyLimitedAtReturn |-> FALSE,
     wasFresh |-> FALSE, limitedHit |-> FALSE, storedAtEnd |-> "none",
     fnCalls |-> 0, sawRateLimit |-> FALSE, runs |-> <<>>]

\* A finished call nobody looks at any more
Forgotten == [NewCall("AAPL", FALSE) EXCEPT !.pc = "forgotten"]

Forget(cs) == [c \in DOMAIN cs |-> IF cs[c].pc = "done" THEN Forgotten ELSE cs[c]]

\* An entry with a series is stored for the symbol: "live", "expired" or "none"
Stored(c, symbol) ==
    IF symbol \notin DOMAIN c.cache \/ c.cache[symbol].timeSeriesData.bars = 0 THEN "none"
    ELSE IF IsExpired(c.cache[symbol]) THEN "expired"
    ELSE "live"

\* The entry of the symbol was written by getStockData less than the
\* freshness limit ago and has not expired.
WrittenRecently(c, symbol, isMarketHours) ==
    /\ Stored(c, symbol) = "live"
    /\ c.cache[symbol].timestamp # 0
    /\ now - c.cache[symbol].timestamp < MaxCacheAge(isMarketHours)

PreferredKey == currentConfig.apiKey[currentConfig.preferredOHLCProvider][1]

\* The call returns `result`; flagAtReturn and keyLimitedAtReturn record the
\* flag and the cooldown of the preferred provider's key at that instant.
Returned(call, from, result, status) ==
    [call EXCEPT !.pc = "done", !.outcome = "returned", !.from = from, !.result = result,
                 !.storedAtEnd = Stored(companyDataCache, call.symbol),
                 !.flagAtReturn = isRateLimited,
                 !.keyLimitedAtReturn = IsKeyRateLimited(status, PreferredKey)]

\* Instead of throwing, the call starts over with its first provider.
ThrewStartsOver(call) ==
    [call EXCEPT !.pc = "attempt", !.index = 1, !.attempt = 1, !.runs = <<>>]

Threw(call) ==
    [call EXCEPT !.pc = "done", !.outcome = "threw",
                 !.storedAtEnd = Stored(companyDataCache, call.symbol),
                 !.flagAtReturn = isRateLimited,
                 !.keyLimitedAtReturn = IsKeyRateLimited(apiKeyStatus, PreferredKey)]

Busy ==
    \E c \in DOMAIN calls :
        \/ calls[c].pc \in {"attempt", "caught", "allFailed"}
        \/ calls[c].pc = "awaitQueue" /\ futures[calls[c].request].state # "pending"

Init ==
    /\ apiQueue = [p \in Providers |-> NewQueue]
    /\ timers = {}
    /\ futures = <<>>
    /\ rateLimitBudget = MaxRateLimits
    /\ companyDataCache = NewCache
    /\ isRateLimited = FALSE
    /\ rateLimitedUntil = 0
    /\ apiKeyStatus = <<>>
    /\ calls = <<>>
    /\ currentConfig \in {[defaultConfig EXCEPT !.preferredOHLCProvider = p,
                                               !.enableFallback = f,
                                               !.cacheResults = cr,
                                               !.apiKey["Finnhub"] = keys] :
                             p \in Providers, f \in BOOLEAN, cr \in BOOLEAN,
                             keys \in FinnhubKeys}

ReadsCacheAtStartAlways(forceRefresh) == TRUE

\* if (!forceRefresh) { const cachedData = checkCache(symbol); ... }
ReadsCacheAtStart(forceRefresh) == ~forceRefresh

\* The key that checkCache(symbol) or saveToCache(symbol, data) hands to the
\* cache, if it gets that far
KeyGiven(config, symbol) == IF config.cacheResults THEN {symbol} ELSE {}

\* getStockData(rawSymbol, timeframe, forceRefresh) up to the provider loop
StartCall(rawSymbol, forceRefresh, isMarketHours) ==
    /\ ~Busy
    /\ Len(calls) < MaxCalls
    /\ Cardinality({c \in DOMAIN calls : calls[c].pc \notin {"done", "forgotten"}}) < MaxActive
    /\ LET symbol == ToUpperCase(rawSymbol)
           call == [NewCall(rawSymbol, forceRefresh) EXCEPT
                       !.wasFresh = currentConfig.cacheResults /\ ~forceRefresh
                                    /\ WrittenRecently(companyDataCache, symbol, isMarketHours),
                       !.limitedHit = currentConfig.cacheResults /\ ~forceRefresh
                                      /\ isRateLimited
                                      /\ Stored(companyDataCache, symbol) = "live"]
           checksFirst == isRateLimited /\ ~forceRefresh
           first == IF checksFirst THEN CheckCache(currentConfig, companyDataCache, rawSymbol)
                    ELSE NoData
           cache1 == IF checksFirst
                     THEN CheckCacheTouch(currentConfig, companyDataCache, rawSymbol)
                     ELSE companyDataCache
           readsCache == ReadsCacheAtStart(forceRefresh)
           second == IF readsCache THEN CheckCache(currentConfig, cache1, call.symbol)
                     ELSE NoData
           cache2 == IF readsCache THEN CheckCacheTouch(currentConfig, cache1, call.symbol)
                     ELSE cache1
           firstKey == IF checksFirst THEN KeyGiven(currentConfig, rawSymbol) ELSE {}
           secondKey == IF readsCache THEN KeyGiven(currentConfig, call.symbol) ELSE {}
       IN  IF first.timeSeriesData.bars > 0
           THEN /\ calls' = Append(Forget(calls), [Returned(call, "rateLimitedCache", first,
                                                    apiKeyStatus)
                                             EXCEPT !.cacheReads = 1, !.cacheKeys = firstKey])
                /\ companyDataCache' = cache1
           ELSE /\ companyDataCache' = cache2
                /\ LET reads == (IF checksFirst THEN 1 ELSE 0) + (IF readsCache THEN 1 ELSE 0)
                       keys == firstKey \cup secondKey
                   IN  IF second.timeSeriesData.bars > 0 /\ IsFreshEnough(second, isMarketHours)
                       THEN calls' = Append(Forget(calls), [Returned(call, "freshCache", second,
                                                             apiKeyStatus)
                                                      EXCEPT !.cacheReads = reads,
                                                             !.cacheKeys = keys])
                       ELSE calls' = Append(Forget(calls), [call EXCEPT !.cacheReads = reads,
                                                                        !.cacheKeys = keys])
    /\ UNCHANGED <<queueVars, isRateLimited, rateLimitedUntil, apiKeyStatus, currentConfig>>

\* getOHLCFrom<provider>(symbol, timeframe) up to the await of the queue
StartAttempt(c) ==
    /\ calls[c].pc = "attempt"
    /\ LET call == calls[c]
           p == ProviderChain(currentConfig)[call.index]
           apiKey == GetAvailableApiKey(apiKeyStatus, currentConfig, p)
           id == Len(futures) + 1
           task == [kind |-> "ohlc", symbol |-> call.symbol, n |-> 0, apiKey |-> apiKey]
           request == [id |-> id, task |-> task, priority |-> 1, timestamp |-> now]
       IN  IF apiKey = "null"
           THEN /\ calls' = [calls EXCEPT ![c].pc = "caught",
                                          ![c].error = "AllKeysLimited",
                                          ![c].fnCalls = @ + 1,
                                          ![c].invoked = @ \cup {p}]
                /\ UNCHANGED <<apiQueue, futures>>
           ELSE /\ calls' = [calls EXCEPT ![c].pc = "awaitQueue",
                                          ![c].apiKey = apiKey,
                                          ![c].request = id,
                                          ![c].fnCalls = @ + 1,
                                          ![c].invoked = @ \cup {p}]
                /\ apiQueue' = [apiQueue EXCEPT ![p] = Enqueue(@, p, request, now)]
                /\ futures' = Append(futures, NewFuture("caller", request, p, apiQueue[p]))
    /\ UNCHANGED <<timers, rateLimitBudget, companyDataCache, isRateLimited,
                   rateLimitedUntil, apiKeyStatus, currentConfig>>

\* The network response of an ohlc fetch arrives: the adapter and the
\* execute closure finish, then processQueue settles the promise, arms the
\* re-enqueue timer on a rate-limit error and goes on with the next request.
ProviderResponds(p, i, response, isMarketHours) ==
    /\ ~Busy
    /\ i \in InFlight(p)
    /\ apiQueue[p].workers[i].request.task.kind = "ohlc"
    /\ response \in Responses(p)
    /\ QueueSeesRateLimit(FetchOutcome(p, response)) => rateLimitBudget > 0
    /\ LET worker == apiQueue[p].workers[i]
           request == worker.request
           outcome == FetchOutcome(p, response)
           flag == SetRateLimited(FetchSetsRateLimited(p, response))
       IN  /\ isRateLimited' = flag[1]
           /\ rateLimitedUntil' = flag[2]
           /\ companyDataCache' =
                 IF p = "AlphaVantage" /\ response = "ok"
                 THEN CacheSet(companyDataCache, request.task.symbol,
                               ProviderData("AlphaVantage"), isMarketHours)
                 ELSE companyDataCache
           /\ futures' = [futures EXCEPT ![request.id] =
                              [@ EXCEPT !.state = Settle(outcome).state,
                                        !.error = Settle(outcome).error,
                                        !.thrown = outcome,
                                        !.settles = @ + 1,
                                        !.result = IF outcome = "ok"
                                                   THEN FetchData(p, response, worker.cachedData)
                                                   ELSE NoData]]
           /\ timers' = timers \cup RequeueTimers(p, request, outcome, now)
           /\ apiQueue' = [apiQueue EXCEPT ![p] =
                              ProcessQueue([@ EXCEPT !.workers = RemoveAt(@, i)], p, now)]
           /\ rateLimitBudget' = IF QueueSeesRateLimit(outcome)
                                  THEN rateLimitBudget - 1 ELSE rateLimitBudget
    /\ UNCHANGED <<apiKeyStatus, currentConfig, calls>>

\* How a call of retryWhenRateLimited ended
RetryRun(call, err, flag) ==
    [provider |-> ProviderChain(currentConfig)[call.index], fnCalls |-> call.fnCalls,
     error |-> err, sawRateLimit |-> call.sawRateLimit \/ IsRateLimitError(err),
     flagAfter |-> flag]

\* A settled promise whose value the awaiting call has taken
Consumed(future) ==
    [future EXCEPT !.state = "consumed", !.error = "none", !.thrown = "none",
                   !.result = NoData]

\* The awaited promise has settled: the rest of getOHLCFrom<provider> and,
\* on success, the rest of getStockData.
AttemptSettled(c, isMarketHours) ==
    /\ calls[c].pc = "awaitQueue"
    /\ futures[calls[c].request].state # "pending"
    /\ LET call == calls[c]
           future == futures[call.request]
           p == ProviderChain(currentConfig)[call.index]
           succeeded == MarkKeySuccess(apiKeyStatus, call.apiKey, p)
           timestampedResult == [timeSeriesData |-> future.result.timeSeriesData,
                                 significantMoves |-> future.result.significantMoves,
                                 timestamp |-> now]
       IN  IF future.state = "resolved"
           THEN /\ apiKeyStatus' = succeeded
                /\ companyDataCache' =
                      IF currentConfig.cacheResults /\ ~call.forceRefresh
                      THEN CacheSet(companyDataCache, call.symbol, timestampedResult,
                                    isMarketHours)
                      ELSE companyDataCache
                /\ calls' = [calls EXCEPT ![c] =
                      [Returned(call, "provider", future.result, succeeded) EXCEPT
                          !.runs = Append(@, RetryRun(call, "none", isRateLimited)),
                          !.cacheKeys = IF call.forceRefresh THEN @
                                        ELSE @ \cup KeyGiven(currentConfig, call.symbol)]]
                /\ futures' = [futures EXCEPT ![call.request] = Consumed(@)]
           ELSE /\ apiKeyStatus' = IF IsRateLimitError(future.error)
                                   THEN MarkKeyRateLimited(apiKeyStatus, call.apiKey, p)
                                   ELSE apiKeyStatus
                /\ calls' = [calls EXCEPT ![c].pc = "caught", ![c].error = future.error]
                /\ futures' = [futures EXCEPT ![call.request] = Consumed(@)]
                /\ UNCHANGED companyDataCache
    /\ UNCHANGED <<apiQueue, timers, rateLimitBudget, isRateLimited, rateLimitedUntil,
                   currentConfig>>

\* The catch blocks: retryWithBackoff decides between another attempt after
\* a backoff sleep and giving up; when it gives up, retryWhenRateLimited
\* rethrows and getStockData goes to the next provider or leaves the loop.
RetryDecision(c, jitter) ==
    /\ calls[c].pc = "caught"
    /\ LET call == calls[c]
           err == call.error
           givesUp == GivesUp(err, call.attempt)
           setsFlag == IsRateLimitError(err) \/ (givesUp /\ StockSeesRateLimit(err))
           flag == IF setsFlag THEN SetRateLimited(TRUE)
                   ELSE <<isRateLimited, rateLimitedUntil>>
           thrown == [call EXCEPT
                         !.runs = Append(@, RetryRun(call, err,
                                                     IsRateLimitError(err) \/ isRateLimited)),
                         !.fnCalls = 0, !.sawRateLimit = FALSE, !.lastError = err]
           hasNext == currentConfig.enableFallback
                      /\ call.index < Len(ProviderChain(currentConfig))
       IN  /\ isRateLimited' = flag[1]
           /\ rateLimitedUntil' = flag[2]
           /\ calls' = [calls EXCEPT ![c] =
                 IF ~givesUp
                 THEN [call EXCEPT !.pc = "backoff",
                                   !.sawRateLimit = TRUE,
                                   !.delay = NextDelay(call.delay),
                                   !.wake = now + NextDelay(call.delay) + jitter]
                 ELSE IF hasNext
                 THEN [thrown EXCEPT !.pc = "attempt", !.index = @ + 1, !.attempt = 1,
                                     !.delay = initialDelayMs]
                 ELSE [thrown EXCEPT !.pc = "allFailed"]]
    /\ UNCHANGED <<queueVars, companyDataCache, apiKeyStatus, currentConfig>>

\* sleep(finalDelay) ends: the next iteration of the retry loop
BackoffWakes(c) ==
    /\ ~Busy
    /\ calls[c].pc = "backoff"
    /\ now >= calls[c].wake
    /\ calls' = [calls EXCEPT ![c].pc = "attempt", ![c].attempt = @ + 1, ![c].wake = 0]
    /\ UNCHANGED <<queueVars, companyDataCache, isRateLimited, rateLimitedUntil,
                   apiKeyStatus, currentConfig>>

SkipsFinalCacheNever(call) == FALSE

\* if (!forceRefresh) { const finalCacheCheck = checkCache(symbol); ... }
SkipsFinalCache(call) == call.forceRefresh

\* Behind the provider loop: the final cache check unless the refresh is
\* forced, then throw lastError.
FinalFallback(c) ==
    /\ calls[c].pc = "allFailed"
    /\ LET call == calls[c]
           finalCacheCheck == CheckCache(currentConfig, companyDataCache, call.symbol)
       IN  IF SkipsFinalCache(call)
           THEN /\ calls' = [calls EXCEPT ![c] = Threw(call)]
                /\ UNCHANGED companyDataCache
           ELSE /\ companyDataCache' =
                      CheckCacheTouch(currentConfig, companyDataCache, call.symbol)
                /\ calls' = [calls EXCEPT ![c] =
                      IF finalCacheCheck.timeSeriesData.bars > 0
                      THEN [Returned(call, "finalCache", finalCacheCheck, apiKeyStatus)
                               EXCEPT !.cacheReads = @ + 1,
                                      !.cacheKeys = @ \cup KeyGiven(currentConfig, call.symbol)]
                      ELSE [Threw(call) EXCEPT
                               !.cacheReads = @ + 1,
                               !.cacheKeys = @ \cup KeyGiven(currentConfig, call.symbol)]]
    /\ UNCHANGED <<queueVars, isRateLimited, rateLimitedUntil, apiKeyStatus, currentConfig>>

\* checkRateLimit(), as api-client.ts calls it before every fetch
CheckRateLimit ==
    /\ ~Busy
    /\ rateLimitedUntil > 0 /\ now > rateLimitedUntil
    /\ isRateLimited' = CheckedRateLimit(<<isRateLimited, rateLimitedUntil>>)[1]
    /\ rateLimitedUntil' = CheckedRateLimit(<<isRateLimited, rateLimitedUntil>>)[2]
    /\ UNCHANGED <<queueVars, companyDataCache, apiKeyStatus, currentConfig, calls>>

\* Times the code compares over hours are kept to the hour.
Coarse(d) == (d \div HourMs) * HourMs

AgeEntry(entry, d) ==
    [entry EXCEPT !.timestamp = Shift(@, Coarse(d), 6 * HourMs),
                  !.lastUpdated = Shift(@, Coarse(d), HourMs),
                  !.expiresAt = Shift(@, Coarse(d), 1)]

AgeCache(c, d) == [c EXCEPT !.cache = [k \in DOMAIN @ |-> AgeEntry(@[k], d)]]

AgeKeys(status, d) ==
    [k \in DOMAIN status |->
        [status[k] EXCEPT !.rateLimitedUntil = Shift(@, d, 0), !.lastUsed = Shift(@, d, 1)]]

AgeCalls(d) == [c \in DOMAIN calls |-> [calls[c] EXCEPT !.wake = Shift(@, d, 0)]]

\* A timer whose time has come fires before more time passes.
TimerDue ==
    \/ \E tm \in timers : now >= tm.due
    \/ \E c \in DOMAIN calls : calls[c].pc = "backoff" /\ now >= calls[c].wake
    \/ \E p \in Providers : \E i \in DOMAIN apiQueue[p].workers :
          apiQueue[p].workers[i].pc = "sleep" /\ now >= apiQueue[p].workers[i].wake

\* d ms pass.  Times the code compares over hours move with the hours only.
Tick(d) ==
    /\ ~Busy
    /\ ~TimerDue
    /\ apiQueue' = [p \in Providers |-> AgeQueue(apiQueue[p], p, d)]
    /\ timers' = AgeTimers(d)
    /\ companyDataCache' = AgeCache(companyDataCache, d)
    /\ rateLimitedUntil' = Shift(rateLimitedUntil, Coarse(d), 1)
    /\ apiKeyStatus' = AgeKeys(apiKeyStatus, d)
    /\ calls' = AgeCalls(d)
    /\ UNCHANGED <<futures, rateLimitBudget, isRateLimited, currentConfig>>

Next ==
    \/ \E s \in Symbols, f \in BOOLEAN, mh \in BOOLEAN : StartCall(s, f, mh)
    \/ \E c \in DOMAIN calls : StartAttempt(c)
    \/ \E p \in Providers : \E i \in DOMAIN apiQueue[p].workers : ~Busy /\ WorkerWakes(p, i)
    \/ \E p \in Providers : \E i \in DOMAIN apiQueue[p].workers : \E r \in Responses(p) :
          \E mh \in (IF p = "AlphaVantage" /\ r = "ok" THEN BOOLEAN ELSE {FALSE}) :
             ProviderResponds(p, i, r, mh)
    \/ \E c \in DOMAIN calls, mh \in BOOLEAN : AttemptSettled(c, mh)
    \/ \E c \in DOMAIN calls, j \in Jitter : RetryDecision(c, j)
    \/ \E c \in DOMAIN calls : BackoffWakes(c)
    \/ \E c \in DOMAIN calls : FinalFallback(c)
    \/ \E tm \in timers : ~Busy /\ RequeueFires(tm)
    \/ CheckRateLimit
    \/ \E d \in StockDeltas : Tick(d)

Spec == Init /\ [][Next]_vars

\* Continuations run, timers fire, time passes and every provider task ends.
FairCalls ==
    /\ WF_vars(\E c \in DOMAIN calls : StartAttempt(c))
    /\ WF_vars(\E p \in Providers : \E i \in DOMAIN apiQueue[p].workers :
                  ~Busy /\ WorkerWakes(p, i))
    /\ WF_vars(\E p \in Providers : \E i \in DOMAIN apiQueue[p].workers :
                  \E r \in Responses(p), mh \in BOOLEAN : ProviderResponds(p, i, r, mh))
    /\ WF_vars(\E c \in DOMAIN calls, mh \in BOOLEAN : AttemptSettled(c, mh))
    /\ WF_vars(\E c \in DOMAIN calls, j \in Jitter : RetryDecision(c, j))
    /\ WF_vars(\E c \in DOMAIN calls : BackoffWakes(c))
    /\ WF_vars(\E c \in DOMAIN calls : FinalFallback(c))
    /\ WF_vars(\E tm \in timers : ~Busy /\ RequeueFires(tm))
    /\ WF_vars(\E d \in StockDeltas : Tick(d))

\* Finnhub preferred with its one key, with and without fallback, no caching
InitFair == Init /\ \E f \in BOOLEAN :
                       currentConfig = [defaultConfig EXCEPT !.enableFallback = f,
                                                             !.cacheResults = FALSE]

SpecFair == InitFair /\ [][Next]_vars /\ FairCalls

-----------------------------------------------------------------------------
(* The cache on its own: callers get and set entries of a cache of a small  *)
(* capacity.  `calls` holds one record, the last call made: the operation,   *)
(* its arguments and the key it evicted.  Its field recency is a history of  *)
(* all calls: the stored keys in the order of their last get or set, the     *)
(* latest first; recencyBefore is that history before the call.              *)

CacheCapacity == 2
CacheKeys == {"AAPL", "MSFT", "TSLA"}
CacheDeltas == {13 * HourMs, 8 * DayMs}

\* new CompanyDataCache(CacheCapacity)
SmallCache == [NewCache EXCEPT !.maxSize = CacheCapacity]

\* Partial entries as the program passes them to set() (a series with its
\* timestamp, a profile), the profile here with a lastUpdated of the past.
Partials ==
    {[timeSeriesData |-> Series("Finnhub", 63), significantMoves |-> 2, timestamp |-> now],
     [name |-> "Apple Inc", companyInfo |-> "profile", lastUpdated |-> now - HourMs]}

NoPartial == [symbol |-> ""]

NoCacheCall ==
    [op |-> "none", symbol |-> "", data |-> NoPartial, evicted |-> "",
     evictedExpired |-> FALSE, recency |-> <<>>, recencyBefore |-> <<>>]

InitCache ==
    /\ apiQueue = [p \in Providers |-> NewQueue]
    /\ timers = {}
    /\ futures = <<>>
    /\ rateLimitBudget = MaxRateLimits
    /\ companyDataCache = SmallCache
    /\ isRateLimited = FALSE
    /\ rateLimitedUntil = 0
    /\ apiKeyStatus = <<>>
    /\ currentConfig = defaultConfig
    /\ calls = <<NoCacheCall>>

\* The key a call removed from the map ("" when none)
Evicted(before, after) ==
    IF DOMAIN before.cache \subseteq DOMAIN after.cache THEN ""
    ELSE CHOOSE k \in DOMAIN before.cache : k \notin DOMAIN after.cache

\* The history of accesses after a get or set of `symbol` that left the
\* cache as `after`
Touched(recency, symbol, after) ==
    LET moved == IF symbol \in DOMAIN after.cache
                 THEN <<symbol>> \o Without(recency, symbol) ELSE recency
    IN  SelectSeq(moved, LAMBDA k : k \in DOMAIN after.cache)

CacheSetCall(symbol, data, isMarketHours) ==
    /\ companyDataCache' = CacheSet(companyDataCache, symbol, data, isMarketHours)
    /\ LET evicted == Evicted(companyDataCache, companyDataCache')
       IN  calls' = <<[op |-> "set", symbol |-> symbol, data |-> data,
                       evicted |-> evicted,
                       evictedExpired |-> evicted # ""
                                          /\ IsExpired(companyDataCache.cache[evicted]),
                       recency |-> Touched(calls[1].recency, symbol, companyDataCache'),
                       recencyBefore |-> calls[1].recency]>>
    /\ UNCHANGED <<queueVars, isRateLimited, rateLimitedUntil, apiKeyStatus, currentConfig>>

CacheGetCall(symbol) ==
    /\ companyDataCache' = CacheGet(companyDataCache, symbol)
    /\ calls' = <<[op |-> "get", symbol |-> symbol, data |-> NoPartial,
                    evicted |-> "", evictedExpired |-> FALSE,
                    recency |-> Touched(calls[1].recency, symbol, companyDataCache'),
                    recencyBefore |-> calls[1].recency]>>
    /\ UNCHANGED <<queueVars, isRateLimited, rateLimitedUntil, apiKeyStatus, currentConfig>>

\* d ms pass.
TickCache(d) ==
    /\ companyDataCache' = AgeCache(companyDataCache, d)
    /\ calls' = <<[NoCacheCall EXCEPT !.recency = calls[1].recency,
                                      !.recencyBefore = calls[1].recency]>>
    /\ UNCHANGED <<queueVars, isRateLimited, rateLimitedUntil, apiKeyStatus, currentConfig>>

NextCache ==
    \/ \E k \in CacheKeys, data \in Partials, mh \in BOOLEAN : CacheSetCall(k, data, mh)
    \/ \E k \in CacheKeys : CacheGetCall(k)
    \/ \E d \in CacheDeltas : TickCache(d)

SpecCache == InitCache /\ [][NextCache]_vars

-----------------------------------------------------------------------------
(* getCompanyNewsWithFallback.  A call awaits the promise of the queue      *)
(* ("awaitQueue") or is "done"; between its start and its first await, and   *)
(* between a failure and the next provider's enqueue, it takes no break.     *)

NewsDeltas == {10000}

\* The provider list of getCompanyNewsWithFallback
NewsChain(config) ==
    <<config.preferredNewsProvider>> \o
    (IF config.enableFallback THEN <<OtherProvider(config.preferredNewsProvider)>> ELSE <<>>)

\* A list of news items is known by its origin and its length.
NewsItems(source, n) == [source |-> source, items |-> n]
EmptyNews == NewsItems("none", 0)

NewNewsCall(rawSymbol) ==
    [pc |-> "awaitQueue", symbol |-> ToUpperCase(rawSymbol), index |-> 1, request |-> 0,
     wake |-> 0, lastError |-> "none", outcome |-> "none", result |-> EmptyNews,
     invoked |-> {}, failed |-> {}]

InitNews ==
    /\ apiQueue = [p \in Providers |-> NewQueue]
    /\ timers = {}
    /\ futures = <<>>
    /\ rateLimitBudget = MaxRateLimits
    /\ companyDataCache = NewCache
    /\ isRateLimited = FALSE
    /\ rateLimitedUntil = 0
    /\ apiKeyStatus = <<>>
    /\ calls = <<>>
    /\ currentConfig \in {[defaultConfig EXCEPT !.preferredNewsProvider = p,
                                               !.enableFallback = f] :
                             p \in Providers, f \in BOOLEAN}

\* getNewsFrom<provider>(symbol): the request it passes to the queue
NewsRequest(symbol) ==
    [id |-> Len(futures) + 1,
     task |-> [kind |-> "news", symbol |-> symbol, n |-> 0, apiKey |-> "null"],
     priority |-> 1, timestamp |-> now]

\* The call enqueues its request with the provider at its index.
AwaitNews(call) ==
    [call EXCEPT !.pc = "awaitQueue", !.request = Len(futures) + 1,
                 !.invoked = @ \cup {NewsChain(currentConfig)[call.index]}]

\* getCompanyNewsWithFallback(rawSymbol) up to its first await
StartNews(rawSymbol) ==
    /\ ~Busy
    /\ Len(calls) < MaxCalls
    /\ \A c \in DOMAIN calls : calls[c].pc = "done"
    /\ LET call == NewNewsCall(rawSymbol)
           p == NewsChain(currentConfig)[1]
       IN  /\ calls' = Append(calls, AwaitNews(call))
           /\ apiQueue' = [apiQueue EXCEPT ![p] = Enqueue(@, p, NewsRequest(call.symbol), now)]
           /\ futures' = Append(futures,
                                NewFuture("caller", NewsRequest(call.symbol), p, apiQueue[p]))
    /\ UNCHANGED <<timers, rateLimitBudget, companyDataCache, isRateLimited,
                   rateLimitedUntil, apiKeyStatus, currentConfig>>

NewsFinnhubResponses == {"429", "httpError", "invalid", "ok", "empty"}
NewsAlphaVantageResponses == {"httpError", "rateLimitInfo", "invalid", "ok"}

\* "ok" or the error the execute closure of a news request throws
NewsOutcome(p, response) ==
    CASE response = "429"           -> "RateLimitReached"
      [] response = "httpError"     -> "HttpError"
      [] response = "rateLimitInfo" -> "RateLimitExceeded"
      [] response = "invalid"       -> "InvalidResponse"
      [] OTHER                      -> "ok"

\* The flag after the fetch: makeRequest of finnhub.ts sets it on 429 and on
\* an error and clears it on a response; getNewsFromAlphaVantage sets it on
\* a rate-limit notice and leaves it alone otherwise.
NewsFlag(p, response, flag) ==
    IF p = "Finnhub" THEN SetRateLimited(response \in {"429", "httpError"})
    ELSE IF response = "rateLimitInfo" THEN SetRateLimited(TRUE)
    ELSE flag

\* The response to a news request arrives.
NewsResponds(p, i, response) ==
    /\ ~Busy
    /\ i \in InFlight(p)
    /\ apiQueue[p].workers[i].request.task.kind = "news"
    /\ response \in (IF p = "Finnhub" THEN NewsFinnhubResponses ELSE NewsAlphaVantageResponses)
    /\ QueueSeesRateLimit(NewsOutcome(p, response)) => rateLimitBudget > 0
    /\ LET request == apiQueue[p].workers[i].request
           outcome == NewsOutcome(p, response)
           flag == NewsFlag(p, response, <<isRateLimited, rateLimitedUntil>>)
       IN  /\ isRateLimited' = flag[1]
           /\ rateLimitedUntil' = flag[2]
           /\ futures' = [futures EXCEPT ![request.id] =
                              [@ EXCEPT !.state = Settle(outcome).state,
                                        !.error = Settle(outcome).error,
                                        !.thrown = outcome,
                                        !.settles = @ + 1,
                                        !.result = IF response = "ok" THEN NewsItems(p, 10)
                                                   ELSE EmptyNews]]
           /\ timers' = timers \cup RequeueTimers(p, request, outcome, now)
           /\ apiQueue' = [apiQueue EXCEPT ![p] =
                              ProcessQueue([@ EXCEPT !.workers = RemoveAt(@, i)], p, now)]
           /\ rateLimitBudget' = IF QueueSeesRateLimit(outcome)
                                  THEN rateLimitBudget - 1 ELSE rateLimitBudget
    /\ UNCHANGED <<companyDataCache, apiKeyStatus, currentConfig, calls>>

NewsAfterAllFailedThrows(call) == [call EXCEPT !.pc = "done", !.outcome = "threw"]

\* Behind the provider loop: return []
NewsAfterAllFailed(call) ==
    [call EXCEPT !.pc = "done", !.outcome = "returned", !.result = EmptyNews]

\* The awaited promise has settled: return the news, or go on after the catch
\* block with the next provider, or leave the loop.
NewsSettled(c) ==
    /\ calls[c].pc = "awaitQueue"
    /\ futures[calls[c].request].state # "pending"
    /\ LET call == calls[c]
           future == futures[call.request]
           failed == [call EXCEPT !.lastError = future.error,
                                  !.failed = @ \cup {NewsChain(currentConfig)[call.index]}]
           hasNext == currentConfig.enableFallback
                      /\ call.index < Len(NewsChain(currentConfig))
           next == [failed EXCEPT !.index = @ + 1]
           p == NewsChain(currentConfig)[next.index]
       IN  IF future.state = "resolved"
           THEN /\ calls' = [calls EXCEPT ![c] =
                                [call EXCEPT !.pc = "done", !.outcome = "returned",
                                             !.result = future.result]]
                /\ futures' = [futures EXCEPT ![call.request] = Consumed(@)]
                /\ UNCHANGED apiQueue
           ELSE IF hasNext
           THEN /\ calls' = [calls EXCEPT ![c] = AwaitNews(next)]
                /\ apiQueue' = [apiQueue EXCEPT ![p] =
                                   Enqueue(@, p, NewsRequest(call.symbol), now)]
                /\ futures' = Append([futures EXCEPT ![call.request] = Consumed(@)],
                                     NewFuture("caller", NewsRequest(call.symbol), p,
                                               apiQueue[p]))
           ELSE /\ calls' = [calls EXCEPT ![c] = NewsAfterAllFailed(failed)]
                /\ futures' = [futures EXCEPT ![call.request] = Consumed(@)]
                /\ UNCHANGED apiQueue
    /\ UNCHANGED <<timers, rateLimitBudget, companyDataCache, isRateLimited,
                   rateLimitedUntil, apiKeyStatus, currentConfig>>

NextNews ==
    \/ \E s \in Symbols : StartNews(s)
    \/ \E p \in Providers : \E i \in DOMAIN apiQueue[p].workers : ~Busy /\ WorkerWakes(p, i)
    \/ \E p \in Providers : \E i \in DOMAIN apiQueue[p].workers :
          \E r \in NewsFinnhubResponses \cup NewsAlphaVantageResponses : NewsResponds(p, i, r)
    \/ \E c \in DOMAIN calls : NewsSettled(c)
    \/ \E tm \in timers : ~Busy /\ RequeueFires(tm)
    \/ \E d \in NewsDeltas : Tick(d)

SpecNews == InitNews /\ [][NextNews]_vars

-----------------------------------------------------------------------------
(* getCompanyProfileWithFallback.  The Finnhub profile request runs          *)
(* getCompanyProfile of finnhub.ts, which reads the cache before it fetches. *)

ProfileDeltas == {10000, HourMs, 8 * DayMs}
ProfileFreshMs == 1800000

\* The provider list of getCompanyProfileWithFallback: Finnhub first
ProfileChain(config) ==
    <<"Finnhub">> \o (IF config.enableFallback THEN <<"AlphaVantage">> ELSE <<>>)

\* Whether the cache's map holds a profile of the symbol, expired or not
ProfileStored(c, symbol) ==
    IF symbol \notin DOMAIN c.cache THEN "none"
    ELSE IF c.cache[symbol].companyInfo = "null" THEN "none"
    ELSE IF IsExpired(c.cache[symbol]) THEN "expired"
    ELSE "live"

NewProfileCall(rawSymbol) ==
    [pc |-> "awaitQueue", symbol |-> ToUpperCase(rawSymbol), index |-> 1, request |-> 0,
     wake |-> 0, lastError |-> "none", outcome |-> "none", result |-> "null",
     from |-> "none", failed |-> {}, stored |-> "none", age |-> 0,
     limitedHit |-> FALSE]

\* return <profile>
ProfileReturned(call, from, profile, age) ==
    [call EXCEPT !.pc = "done", !.outcome = "returned", !.result = profile,
                 !.from = from, !.age = age,
                 !.stored = ProfileStored(companyDataCache, call.symbol)]

\* throw lastError || new Error(...)
ProfileThrew(call) ==
    [call EXCEPT !.pc = "done", !.outcome = "threw", !.result = "null",
                 !.stored = ProfileStored(companyDataCache, call.symbol)]

InitProfile ==
    /\ apiQueue = [p \in Providers |-> NewQueue]
    /\ timers = {}
    /\ futures = <<>>
    /\ rateLimitBudget = MaxRateLimits
    /\ companyDataCache = NewCache
    /\ isRateLimited = FALSE
    /\ rateLimitedUntil = 0
    /\ apiKeyStatus = <<>>
    /\ calls = <<>>
    /\ currentConfig \in {[defaultConfig EXCEPT !.enableFallback = f, !.cacheResults = cr] :
                             f \in BOOLEAN, cr \in BOOLEAN}

\* getCompanyProfileFrom<provider>(symbol): the request it passes to the queue
ProfileRequest(symbol) ==
    [id |-> Len(futures) + 1,
     task |-> [kind |-> "profile", symbol |-> symbol, n |-> 0, apiKey |-> "null"],
     priority |-> 1, timestamp |-> now]

ServesUnderFlagWhenFresh(flag, cachedData) ==
    flag /\ cachedData.companyInfo # "null" /\ now - cachedData.lastUpdated < ProfileFreshMs

\* if (isRateLimited) { ... if (cachedData?.companyInfo) return ... }
ServesUnderFlag(flag, cachedData) == flag /\ cachedData.companyInfo # "null"

\* getCompanyProfileWithFallback(rawSymbol) up to its return or first await:
\* the cache read under the rate-limit flag, the cache read for a profile
\* younger than 30 minutes, then the request to Finnhub.
StartProfile(rawSymbol) ==
    /\ ~Busy
    /\ Len(calls) < MaxCalls
    /\ \A c \in DOMAIN calls : calls[c].pc = "done"
    /\ LET fresh == NewProfileCall(rawSymbol)
           call == [fresh EXCEPT !.limitedHit =
                       isRateLimited
                       /\ ProfileStored(companyDataCache, fresh.symbol) = "live"]
           cachedData == CacheGetResult(companyDataCache, call.symbol)
           once == CacheGet(companyDataCache, call.symbol)
           twice == CacheGet(once, call.symbol)
           cacheAge == now - cachedData.lastUpdated
           request == ProfileRequest(call.symbol)
       IN  IF ServesUnderFlag(isRateLimited, cachedData)
           THEN /\ companyDataCache' = once
                /\ calls' = Append(calls, ProfileReturned(call, "rateLimitedCache",
                                                          cachedData.companyInfo, cacheAge))
                /\ UNCHANGED <<apiQueue, futures>>
           ELSE /\ companyDataCache' = IF isRateLimited THEN twice ELSE once
                /\ IF cachedData.companyInfo # "null" /\ cacheAge < ProfileFreshMs
                   THEN /\ calls' = Append(calls, ProfileReturned(call, "freshCache",
                                                          cachedData.companyInfo, cacheAge))
                        /\ UNCHANGED <<apiQueue, futures>>
                   ELSE /\ calls' = Append(calls, [call EXCEPT !.request = request.id])
                        /\ apiQueue' = [apiQueue EXCEPT !["Finnhub"] =
                                           Enqueue(@, "Finnhub", request, now)]
                        /\ futures' = Append(futures, NewFuture("caller", request, "Finnhub",
                                                                apiQueue["Finnhub"]))
    /\ UNCHANGED <<timers, rateLimitBudget, isRateLimited, rateLimitedUntil, apiKeyStatus,
                   currentConfig>>

\* A worker's sleep ends and it dispatches the head of its queue; a Finnhub
\* profile request begins with the cache read of getCompanyProfile.
ProfileWakes(p, i) ==
    /\ ~Busy
    /\ i \in DOMAIN apiQueue[p].workers
    /\ apiQueue[p].workers[i].pc = "sleep"
    /\ now >= apiQueue[p].workers[i].wake
    /\ LET q == apiQueue[p]
           request == IF Len(q.queue) > 0 THEN Head(q.queue) ELSE NoRequest
           found == CacheGetResult(companyDataCache, request.task.symbol)
       IN  IF Len(q.queue) = 0
           THEN /\ apiQueue' = [apiQueue EXCEPT ![p] = Dispatch(@, p, i, now)]
                /\ UNCHANGED companyDataCache
           ELSE IF p = "Finnhub"
           THEN /\ apiQueue' = [apiQueue EXCEPT ![p] =
                                  [Dispatch(@, p, i, now) EXCEPT
                                      !.workers[i].cachedData = found.companyInfo]]
                /\ companyDataCache' = CacheGet(companyDataCache, request.task.symbol)
           ELSE /\ apiQueue' = [apiQueue EXCEPT ![p] =
                                  [Dispatch(@, p, i, now) EXCEPT
                                      !.workers[i].cachedData = "null"]]
                /\ UNCHANGED companyDataCache
    /\ UNCHANGED <<timers, futures, rateLimitBudget, isRateLimited, rateLimitedUntil,
                   apiKeyStatus, currentConfig, calls>>

ProfileFinnhubResponses == {"cacheHit", "429", "httpError", "invalid", "ok"}
ProfileAlphaVantageResponses == {"httpError", "rateLimitInfo", "invalid", "ok"}

\* "ok" or the error the execute closure of a profile request throws
ProfileOutcome(response) ==
    CASE response = "429"           -> "RateLimitReached"
      [] response = "httpError"     -> "HttpError"
      [] response = "rateLimitInfo" -> "RateLimitExceeded"
      [] response = "invalid"       -> "InvalidResponse"
      [] OTHER                      -> "ok"

\* The flag after the closure: untouched by a cache hit; otherwise as
\* makeRequest of finnhub.ts and getCompanyProfileFromAlphaVantage set it.
ProfileFlag(p, response, flag) ==
    IF response = "cacheHit" THEN flag
    ELSE IF p = "Finnhub" THEN SetRateLimited(response \in {"429", "httpError"})
    ELSE IF response = "rateLimitInfo" THEN SetRateLimited(TRUE)
    ELSE flag

\* The cache after the closure: getCompanyProfile stores the profile it
\* fetched, and reads the cache again in its catch block.
ProfileCache(c, p, symbol, response) ==
    IF p # "Finnhub" \/ response \in {"cacheHit", "invalid"} THEN c
    ELSE IF response = "ok"
         THEN CacheSet(c, symbol, [name |-> "Apple Inc", companyInfo |-> "Finnhub"], FALSE)
         ELSE CacheGet(c, symbol)

\* The closure of a profile request ends.
ProfileResponds(p, i, response) ==
    /\ ~Busy
    /\ i \in InFlight(p)
    /\ apiQueue[p].workers[i].request.task.kind = "profile"
    /\ response \in (IF p = "Finnhub" THEN ProfileFinnhubResponses
                                        ELSE ProfileAlphaVantageResponses)
    /\ response = "cacheHit" <=> apiQueue[p].workers[i].cachedData # "null"
    /\ QueueSeesRateLimit(ProfileOutcome(response)) => rateLimitBudget > 0
    /\ LET request == apiQueue[p].workers[i].request
           symbol == request.task.symbol
           again == CacheGetResult(companyDataCache, symbol).companyInfo
           rescued == p = "Finnhub" /\ response \in {"429", "httpError"} /\ again # "null"
           outcome == IF rescued THEN "ok" ELSE ProfileOutcome(response)
           profile == IF response = "cacheHit" THEN apiQueue[p].workers[i].cachedData
                      ELSE IF rescued THEN again
                      ELSE IF response = "ok" THEN p
                      ELSE "null"
           flag == ProfileFlag(p, response, <<isRateLimited, rateLimitedUntil>>)
       IN  /\ isRateLimited' = flag[1]
           /\ rateLimitedUntil' = flag[2]
           /\ companyDataCache' = ProfileCache(companyDataCache, p, symbol, response)
           /\ futures' = [futures EXCEPT ![request.id] =
                              [@ EXCEPT !.state = Settle(outcome).state,
                                        !.error = Settle(outcome).error,
                                        !.thrown = outcome,
                                        !.settles = @ + 1,
                                        !.result = profile]]
           /\ timers' = timers \cup RequeueTimers(p, request, outcome, now)
           /\ apiQueue' = [apiQueue EXCEPT ![p] =
                              ProcessQueue([@ EXCEPT !.workers = RemoveAt(@, i)], p, now)]
           /\ rateLimitBudget' = IF QueueSeesRateLimit(outcome)
                                  THEN rateLimitBudget - 1 ELSE rateLimitBudget
    /\ UNCHANGED <<apiKeyStatus, currentConfig, calls>>

\* errorMessage includes 'rate limit' or 'too many requests'
ProfileSeesRateLimit(err) == Phrases(err) \cap {"rate limit", "too many requests"} # {}

\* The awaited promise has settled: store and return the profile, or go on
\* after the catch block with AlphaVantage, or leave the loop for the final
\* cache check.
ProfileSettled(c) ==
    /\ calls[c].pc = "awaitQueue"
    /\ futures[calls[c].request].state # "pending"
    /\ LET call == calls[c]
           future == futures[call.request]
           p == ProfileChain(currentConfig)[call.index]
           failed == [call EXCEPT !.lastError = future.error, !.failed = @ \cup {p}]
           flag == IF ProfileSeesRateLimit(future.error)
                      /\ (~currentConfig.enableFallback \/ p = "AlphaVantage")
                   THEN SetRateLimited(TRUE)
                   ELSE <<isRateLimited, rateLimitedUntil>>
           hasNext == currentConfig.enableFallback
                      /\ call.index < Len(ProfileChain(currentConfig))
           request == ProfileRequest(call.symbol)
           finalCacheCheck == CacheGetResult(companyDataCache, call.symbol)
       IN  IF future.state = "resolved"
           THEN /\ companyDataCache' =
                      IF currentConfig.cacheResults
                      THEN CacheSet(companyDataCache, call.symbol,
                                    [name |-> "Apple Inc", companyInfo |-> future.result,
                                     lastUpdated |-> now], FALSE)
                      ELSE companyDataCache
                /\ isRateLimited' = SetRateLimited(FALSE)[1]
                /\ rateLimitedUntil' = SetRateLimited(FALSE)[2]
                /\ calls' = [calls EXCEPT ![c] =
                                ProfileReturned(call, p, future.result, 0)]
                /\ futures' = [futures EXCEPT ![call.request] = Consumed(@)]
                /\ UNCHANGED apiQueue
           ELSE /\ isRateLimited' = flag[1]
                /\ rateLimitedUntil' = flag[2]
                /\ IF hasNext
                   THEN /\ calls' = [calls EXCEPT ![c] =
                                        [failed EXCEPT !.index = @ + 1,
                                                       !.request = request.id]]
                        /\ apiQueue' = [apiQueue EXCEPT !["AlphaVantage"] =
                                           Enqueue(@, "AlphaVantage", request, now)]
                        /\ futures' = Append([futures EXCEPT ![call.request] = Consumed(@)],
                                             NewFuture("caller", request, "AlphaVantage",
                                                       apiQueue["AlphaVantage"]))
                        /\ UNCHANGED companyDataCache
                   ELSE /\ companyDataCache' = CacheGet(companyDataCache, call.symbol)
                        /\ calls' = [calls EXCEPT ![c] =
                                        IF finalCacheCheck.companyInfo # "null"
                                        THEN ProfileReturned(failed, "finalCache",
                                                 finalCacheCheck.companyInfo,
                                                 now - finalCacheCheck.lastUpdated)
                                        ELSE ProfileThrew(failed)]
                        /\ futures' = [futures EXCEPT ![call.request] = Consumed(@)]
                        /\ UNCHANGED apiQueue
    /\ UNCHANGED <<timers, rateLimitBudget, apiKeyStatus, currentConfig>>

\* Another operation of the process (a stock-data fetch) is rate limited
\* and sets the process-wide flag.
RateLimitedElsewhere ==
    /\ ~Busy
    /\ isRateLimited' = SetRateLimited(TRUE)[1]
    /\ rateLimitedUntil' = SetRateLimited(TRUE)[2]
    /\ UNCHANGED <<queueVars, companyDataCache, apiKeyStatus, currentConfig, calls>>

NextProfile ==
    \/ \E s \in Symbols : StartProfile(s)
    \/ \E p \in Providers : \E i \in DOMAIN apiQueue[p].workers : ProfileWakes(p, i)
    \/ \E p \in Providers : \E i \in DOMAIN apiQueue[p].workers :
          \E r \in ProfileFinnhubResponses \cup ProfileAlphaVantageResponses :
             ProfileResponds(p, i, r)
    \/ \E c \in DOMAIN calls : ProfileSettled(c)
    \/ \E tm \in timers : ~Busy /\ RequeueFires(tm)
    \/ \E d \in ProfileDeltas : Tick(d)
    \/ RateLimitedElsewhere

SpecProfile == InitProfile /\ [][NextProfile]_vars

-----------------------------------------------------------------------------
(* retryWithBackoff on its own: the options are drawn at the start, every   *)
(* attempt but the last may fail with a retryable error.                     *)

MaxBackoffRetries == 4

BackoffOptions ==
    [maxRetries : {MaxBackoffRetries}, initialDelayMs : {1000, 2000, 40000},
     maxDelayMs : {30000, 60000}, backoffFactor : {1, 2, 3}]

\* waits: the delays before jitter; applied: the arguments of sleep()
NewBackoff(options) ==
    [pc |-> "try", options |-> options, attempt |-> 1, delay |-> options.initialDelayMs,
     waits |-> <<>>, applied |-> <<>>]

InitBackoff ==
    /\ apiQueue = [p \in Providers |-> NewQueue]
    /\ timers = {}
    /\ futures = <<>>
    /\ rateLimitBudget = 0
    /\ companyDataCache = NewCache
    /\ isRateLimited = FALSE
    /\ rateLimitedUntil = 0
    /\ apiKeyStatus = <<>>
    /\ currentConfig = defaultConfig
    /\ calls \in {<<NewBackoff(o)>> : o \in BackoffOptions}

\* fn() throws an error that retryCondition accepts, not in the last attempt.
AttemptFails(jitter) ==
    /\ calls[1].pc = "try"
    /\ calls[1].attempt < calls[1].options.maxRetries
    /\ LET run == calls[1]
           delay == BackoffDelay(run.delay, run.options.backoffFactor, run.options.maxDelayMs)
       IN  calls' = <<[run EXCEPT !.attempt = @ + 1,
                                  !.delay = delay,
                                  !.waits = Append(@, delay),
                                  !.applied = Append(@, delay + jitter)]>>
    /\ UNCHANGED <<queueVars, companyDataCache, isRateLimited, rateLimitedUntil,
                   apiKeyStatus, currentConfig>>

\* fn() returns, or throws in the last attempt or an error not to retry.
AttemptEnds ==
    /\ calls[1].pc = "try"
    /\ calls' = <<[calls[1] EXCEPT !.pc = "done"]>>
    /\ UNCHANGED <<queueVars, companyDataCache, isRateLimited, rateLimitedUntil,
                   apiKeyStatus, currentConfig>>

NextBackoff ==
    \/ \E jitter \in Jitter : AttemptFails(jitter)
    \/ AttemptEnds

SpecBackoff == InitBackoff /\ [][NextBackoff]_vars

-----------------------------------------------------------------------------
(* set() with options: the inputs of a few sets are drawn from small sets.   *)

MaxSets == 2

\* CacheOptions: without expirationTime, with 0, with five minutes
ExpiryOptions == {[priority |-> "medium"], [expirationTime |-> 0], [expirationTime |-> 300000]}

\* A series, a profile, a profile with a series, a name only, an empty series
ExpiryPartials ==
    {[timeSeriesData |-> Series("Finnhub", 63), significantMoves |-> 2],
     [name |-> "Apple Inc", companyInfo |-> "profile"],
     [name |-> "Apple Inc", companyInfo |-> "profile",
      timeSeriesData |-> Series("Finnhub", 63)],
     [name |-> "Apple Inc"],
     [timeSeriesData |-> NoSeries]}

NoExpiryCall ==
    [op |-> "none", symbol |-> "", data |-> NoPartial, options |-> [priority |-> "medium"],
     isMarketHours |-> FALSE, sets |-> 0]

InitExpiry ==
    /\ apiQueue = [p \in Providers |-> NewQueue]
    /\ timers = {}
    /\ futures = <<>>
    /\ rateLimitBudget = 0
    /\ companyDataCache = NewCache
    /\ isRateLimited = FALSE
    /\ rateLimitedUntil = 0
    /\ apiKeyStatus = <<>>
    /\ currentConfig = defaultConfig
    /\ calls = <<NoExpiryCall>>

ExpirySet(symbol, data, options, isMarketHours) ==
    /\ calls[1].sets < MaxSets
    /\ companyDataCache' = CacheSetWith(companyDataCache, symbol, data, options, isMarketHours)
    /\ calls' = <<[op |-> "set", symbol |-> symbol, data |-> data, options |-> options,
                    isMarketHours |-> isMarketHours, sets |-> calls[1].sets + 1]>>
    /\ UNCHANGED <<queueVars, isRateLimited, rateLimitedUntil, apiKeyStatus, currentConfig>>

NextExpiry ==
    \E data \in ExpiryPartials, options \in ExpiryOptions, mh \in BOOLEAN :
        ExpirySet("AAPL", data, options, mh)

SpecExpiry == InitExpiry /\ [][NextExpiry]_vars

-----------------------------------------------------------------------------
(* The cache in a browser: every entry set is also written to localStorage   *)
(* under its own key, and a get of a key that is not in memory tries         *)
(* localStorage.  The record of the cache carries the store in the field     *)
(* localStorage.  JSON.stringify and JSON.parse take an entry (strings,      *)
(* numbers, arrays, null) to an equal entry.  localStorage calls may throw.  *)

StoreDeltas == {13 * HourMs}

\* The partial of the sets of this specification: a series
StorePartial == [timeSeriesData |-> Series("Finnhub", 63), significantMoves |-> 2]

\* An entry a previous session has left in localStorage
LeftEntry(symbol, expiresAt) ==
    [FreshEntry(symbol) EXCEPT !.timeSeriesData = Series("Finnhub", 63),
                               !.lastUpdated = now - HourMs,
                               !.expiresAt = expiresAt]

StoreLoadItemKeepsOrder(c, symbol, readFails) ==
    IF ~readFails /\ symbol \in DOMAIN c.localStorage
    THEN [c EXCEPT !.cache = MapPut(@, symbol, c.localStorage[symbol])]
    ELSE c

\* loadItemFromStorage(symbol): the cache after it
StoreLoadItem(c, symbol, readFails) ==
    IF ~readFails /\ symbol \in DOMAIN c.localStorage
    THEN [c EXCEPT !.cache = MapPut(@, symbol, c.localStorage[symbol]),
                   !.accessOrder = Append(Without(@, symbol), symbol)]
    ELSE c

\* new CompanyDataCache(CacheCapacity) in a browser whose localStorage holds
\* `left`: loadFromStorage loads every item, whatever the capacity.
RECURSIVE LoadAll(_, _)
LoadAll(c, keys) ==
    IF keys = {} THEN c
    ELSE LET k == CHOOSE x \in keys : TRUE
         IN  LoadAll(StoreLoadItem(c, k, FALSE), keys \ {k})

BrowserCache(left) ==
    LoadAll([cache |-> <<>>, accessOrder |-> <<>>, maxSize |-> CacheCapacity,
             localStorage |-> left], DOMAIN left)

\* get(symbol) in a browser: the cache after it, and what it returns
StoreLoaded(c, symbol, readFails) ==
    IF symbol \notin DOMAIN c.cache THEN StoreLoadItem(c, symbol, readFails) ELSE c

StoreGet(c, symbol, readFails) == CacheGet(StoreLoaded(c, symbol, readFails), symbol)

StoreGetResult(c, symbol, readFails) ==
    CacheGetResult(StoreLoaded(c, symbol, readFails), symbol)

\* localStorage after saveItemToStorage and removeItemFromStorage of a set
\* that took the cache from c to mem
Persist(c, mem, symbol, writeFails, removeFails) ==
    LET saved == IF writeFails \/ symbol \notin DOMAIN mem.cache THEN c.localStorage
                 ELSE MapPut(c.localStorage, symbol, mem.cache[symbol])
        oldest == IF DOMAIN c.cache \subseteq DOMAIN mem.cache THEN {}
                  ELSE DOMAIN c.cache \ DOMAIN mem.cache
    IN  IF removeFails THEN saved
        ELSE [k \in DOMAIN saved \ oldest |-> saved[k]]

StoreSetAborts(c, symbol, data, isMarketHours, writeFails, removeFails) ==
    IF writeFails \/ removeFails THEN c
    ELSE LET mem == CacheSet(c, symbol, data, isMarketHours)
         IN  [mem EXCEPT !.localStorage = Persist(c, mem, symbol, FALSE, FALSE)]

\* set(symbol, data) in a browser
StoreSet(c, symbol, data, isMarketHours, writeFails, removeFails) ==
    LET mem == CacheSet(c, symbol, data, isMarketHours)
    IN  [mem EXCEPT !.localStorage = Persist(c, mem, symbol, writeFails, removeFails)]

CleanupExpiredDeletes(c) ==
    LET live == {k \in DOMAIN c.cache : ~IsExpired(c.cache[k])}
    IN  [c EXCEPT !.cache = [k \in live |-> c.cache[k]],
                  !.accessOrder = SelectSeq(@, LAMBDA k : k \in live)]

\* cleanupExpired(): it logs the expired entries
CleanupExpired(c) == c

\* Keys of the entries that other sessions on the same localStorage may
\* have left: more than CacheCapacity
LeftKeys == {"MSFT", "NVDA", "TSLA"}

NoStoreCall ==
    [op |-> "none", symbol |-> "", result |-> "none", loaded |-> FALSE,
     readFails |-> FALSE, writeFails |-> FALSE, removeFails |-> FALSE]

InitStore ==
    /\ apiQueue = [p \in Providers |-> NewQueue]
    /\ timers = {}
    /\ futures = <<>>
    /\ rateLimitBudget = 0
    /\ companyDataCache \in
          {BrowserCache(<<>>), BrowserCache([k \in LeftKeys |-> LeftEntry(k, now + HourMs)])}
          \cup
          {BrowserCache([k \in {"TSLA"} |-> LeftEntry(k, e)]) : e \in {now - 1, now + HourMs}}
    /\ isRateLimited = FALSE
    /\ rateLimitedUntil = 0
    /\ apiKeyStatus = <<>>
    /\ currentConfig = defaultConfig
    /\ calls = <<NoStoreCall>>

StoreSetCall(symbol, writeFails, removeFails) ==
    /\ companyDataCache' =
          StoreSet(companyDataCache, symbol, StorePartial, FALSE, writeFails, removeFails)
    /\ calls' = <<[NoStoreCall EXCEPT !.op = "set", !.symbol = symbol,
                                       !.writeFails = writeFails,
                                       !.removeFails = removeFails]>>
    /\ UNCHANGED <<queueVars, isRateLimited, rateLimitedUntil, apiKeyStatus, currentConfig>>

StoreGetCall(symbol, readFails) ==
    /\ companyDataCache' = StoreGet(companyDataCache, symbol, readFails)
    /\ calls' = <<[NoStoreCall EXCEPT
                      !.op = "get", !.symbol = symbol, !.readFails = readFails,
                      !.loaded = symbol \notin DOMAIN companyDataCache.cache
                                 /\ symbol \in DOMAIN companyDataCache'.cache,
                      !.result = IF StoreGetResult(companyDataCache, symbol, readFails)
                                    = Undefined
                                 THEN "miss" ELSE "hit"]>>
    /\ UNCHANGED <<queueVars, isRateLimited, rateLimitedUntil, apiKeyStatus, currentConfig>>

\* The one-minute interval timer of the constructor fires.
CleanupExpiredCall ==
    /\ companyDataCache' = CleanupExpired(companyDataCache)
    /\ calls' = <<[NoStoreCall EXCEPT !.op = "cleanup"]>>
    /\ UNCHANGED <<queueVars, isRateLimited, rateLimitedUntil, apiKeyStatus, currentConfig>>

\* d ms pass, for the entries in memory and those in localStorage.
TickStore(d) ==
    /\ companyDataCache' =
          [AgeCache(companyDataCache, d) EXCEPT
              !.localStorage = [k \in DOMAIN @ |-> AgeEntry(@[k], d)]]
    /\ calls' = <<NoStoreCall>>
    /\ UNCHANGED <<queueVars, isRateLimited, rateLimitedUntil, apiKeyStatus, currentConfig>>

NextStore ==
    \/ \E k \in CacheKeys, wf \in BOOLEAN, rf \in BOOLEAN : StoreSetCall(k, wf, rf)
    \/ \E k \in CacheKeys, f \in BOOLEAN : StoreGetCall(k, f)
    \/ CleanupExpiredCall
    \/ \E d \in StoreDeltas : TickStore(d)

SpecStore == InitStore /\ [][NextStore]_vars

-----------------------------------------------------------------------------
(* The significant moves of a fetched window.  A day is a record of its      *)
(* date (a day number), its percentageChange in hundredths of a percent      *)
(* (toFixed(2)) and its volume; the window is drawn from small sets.         *)

MaxWindow == 3
MaxMoves == 10
SignificantChange == 200
MoveChanges == {-300, 100, 400}
MoveVolumes == {100, 180, 400}

Day(date, change, volume) == [date |-> date, percentageChange |-> change, volume |-> volume]

\* Every window of n days, most recent first or oldest first
WindowsOf(n) ==
    UNION {{[i \in 1..n |-> Day(n + 1 - i, f[i][1], f[i][2])],
            [i \in 1..n |-> Day(i, f[i][1], f[i][2])]} :
           f \in [1..n -> MoveChanges \X MoveVolumes]}

\* Ten days of volume 100 but the fifth, which rose 4% on the given volume
ScenarioWindow(volume) ==
    [i \in 1..10 |-> IF i = 5 THEN Day(11 - i, 400, volume) ELSE Day(11 - i, 100, 100)]

\* Seventeen days: eleven that rose 4% on a volume of 1000, six quiet ones
CrowdedWindow ==
    [i \in 1..17 |-> IF i <= 11 THEN Day(18 - i, 400, 1000) ELSE Day(18 - i, 100, 10)]

Windows ==
    UNION {WindowsOf(n) : n \in 1..MaxWindow}
        \cup {ScenarioWindow(210), ScenarioWindow(120), CrowdedWindow}

Abs(x) == IF x < 0 THEN -x ELSE x

\* reduce((sum, day) => sum + day.volume, 0)
RECURSIVE SumVolume(_)
SumVolume(days) ==
    IF days = <<>> THEN 0 ELSE Head(days).volume + SumVolume(Tail(days))

\* day.volume > avgVolume * 1.5 where avgVolume = sum / length, both sides
\* multiplied by 2 * length
AboveAverage(volume, sum, length) == 2 * volume * length > 3 * sum

\* Math.abs(day.percentageChange) > 2 && day.volume > avgVolume * 1.5
IsSignificant(day, days) ==
    /\ Abs(day.percentageChange) > SignificantChange
    /\ AboveAverage(day.volume, SumVolume(days), Len(days))

\* sort((a, b) => new Date(b.date).getTime() - new Date(a.date).getTime())
RECURSIVE SortByDate(_)
SortByDate(days) ==
    IF days = <<>> THEN <<>>
    ELSE LET rest == SortByDate(Tail(days))
             newer == SelectSeq(rest, LAMBDA d : d.date > Head(days).date)
             older == SelectSeq(rest, LAMBDA d : ~(d.date > Head(days).date))
         IN  newer \o <<Head(days)>> \o older

\* The loop over the window, the sort and splice(10)
SignificantMoves(days) ==
    LET found == SortByDate(SelectSeq(days, LAMBDA day : IsSignificant(day, days)))
    IN  SubSeq(found, 1, Min(Len(found), MaxMoves))

InitMoves ==
    /\ apiQueue = [p \in Providers |-> NewQueue]
    /\ timers = {}
    /\ futures = <<>>
    /\ rateLimitBudget = 0
    /\ companyDataCache = NewCache
    /\ isRateLimited = FALSE
    /\ rateLimitedUntil = 0
    /\ apiKeyStatus = <<>>
    /\ currentConfig = defaultConfig
    /\ \E window \in Windows :
          calls = <<[op |-> "fetched", timeSeriesData |-> window, significantMoves |-> <<>>]>>

\* The rest of the task after the provider has answered with the window
FindMoves ==
    /\ calls[1].op = "fetched"
    /\ calls' = <<[calls[1] EXCEPT !.op = "moves",
                      !.significantMoves = SignificantMoves(calls[1].timeSeriesData)]>>
    /\ UNCHANGED <<queueVars, companyDataCache, isRateLimited, rateLimitedUntil,
                   apiKeyStatus, currentConfig>>

NextMoves == FindMoves

SpecMoves == InitMoves /\ [][NextMoves]_vars

-----------------------------------------------------------------------------
(* The queue with tasks that may fail with a rate-limit error whenever they  *)
(* are executed.  A request carries the id of the request its execute        *)
(* closure was first enqueued with; the promise that the enqueue call of the *)
(* timer returns is held by nobody and is not kept.  Priorities above        *)
(* MaxPriority are kept as MaxPriority.                                      *)

MaxPriority == 4

RetriedOutcomes == {"ok", "RateLimitReached"}

\* The try/catch of processQueue around request.execute()
TaskEndsAgain(p, i, outcome) ==
    /\ i \in InFlight(p)
    /\ LET request == apiQueue[p].workers[i].request
       IN  /\ futures' = [futures EXCEPT ![request.id] =
                              IF @.state = "pending"
                              THEN [@ EXCEPT !.state = Settle(outcome).state,
                                             !.error = Settle(outcome).error,
                                             !.thrown = outcome,
                                             !.settles = @ + 1]
                              ELSE @]
           /\ timers' = timers \cup RequeueTimers(p, request, outcome, now)
           /\ apiQueue' = [apiQueue EXCEPT ![p] =
                              ProcessQueue([@ EXCEPT !.workers = RemoveAt(@, i)], p, now)]
    /\ UNCHANGED <<rateLimitBudget, stockVars>>

\* The timer's callback: this.enqueue(request.execute, request.priority + 1)
RequeueFiresAgain(tm) ==
    /\ tm \in timers
    /\ now >= tm.due
    /\ LET request == [id |-> tm.parent, task |-> tm.task,
                       priority |-> Min(tm.priority, MaxPriority), timestamp |-> now]
       IN  apiQueue' = [apiQueue EXCEPT ![tm.provider] = Enqueue(@, tm.provider, request, now)]
    /\ timers' = timers \ {tm}
    /\ UNCHANGED <<futures, rateLimitBudget, stockVars>>

NextRequeue ==
    \/ \E p \in Providers, priority \in Priorities : EnqueueTask(p, priority)
    \/ \E p \in Providers : \E i \in DOMAIN apiQueue[p].workers : WorkerWakes(p, i)
    \/ \E p \in Providers, outcome \in RetriedOutcomes :
          \E i \in DOMAIN apiQueue[p].workers : TaskEndsAgain(p, i, outcome)
    \/ \E tm \in timers : RequeueFiresAgain(tm)
    \/ \E d \in QueueDeltas : TickQueue(d)

\* Timers fire, time passes and a dispatched task ends.
FairRequeue ==
    /\ WF_vars(\E p \in Providers : \E i \in DOMAIN apiQueue[p].workers : WorkerWakes(p, i))
    /\ WF_vars(\E p \in Providers, outcome \in RetriedOutcomes :
                  \E i \in DOMAIN apiQueue[p].workers : TaskEndsAgain(p, i, outcome))
    /\ WF_vars(\E tm \in timers : RequeueFiresAgain(tm))
    /\ WF_vars(\E d \in QueueDeltas : TickQueue(d))

SpecRequeue == InitQueue /\ [][NextRequeue]_vars /\ FairRequeue

-----------------------------------------------------------------------------
(* The timeframe of a getStockData call: the tokens are drawn from a small   *)
(* set, and a call is made directly or by the GET handler of the route.      *)

MaxFetches == 2

\* The tokens of the user interface, those of the stock API, and two others
Timeframes == {"1w", "1m", "3m", "6m", "1y", "1mo", "3mo", "6mo", "5d", ""}

\* GET: const timeframe = (() => { switch (timeframeParam) ... })()
RouteTimeframe(timeframeParam) ==
    CASE timeframeParam = "1w" -> "1w"
      [] timeframeParam = "1m" -> "1mo"
      [] timeframeParam = "3m" -> "3mo"
      [] timeframeParam = "6m" -> "6mo"
      [] timeframeParam = "1y" -> "1y"
      [] OTHER                 -> "3mo"

\* getStockData: const standardizedTimeframe = (() => { switch (timeframe) ... })()
StandardizedTimeframe(timeframe) ==
    CASE timeframe = "1w"  -> "1w"
      [] timeframe = "1mo" -> "1m"
      [] timeframe = "3mo" -> "3m"
      [] timeframe = "6mo" -> "6m"
      [] timeframe = "1y"  -> "1y"
      [] OTHER             -> "3m"

\* The days of the window the providers fetch for a standardized timeframe
TimeframeDays(timeframe) ==
    CASE timeframe = "1w" -> 7
      [] timeframe = "1m" -> 30
      [] timeframe = "3m" -> 90
      [] timeframe = "6m" -> 180
      [] timeframe = "1y" -> 365
      [] OTHER            -> 90

NoFetch == [op |-> "none", timeframe |-> "", standardizedTimeframe |-> "", days |-> 0]

InitTimeframe ==
    /\ apiQueue = [p \in Providers |-> NewQueue]
    /\ timers = {}
    /\ futures = <<>>
    /\ rateLimitBudget = 0
    /\ companyDataCache = NewCache
    /\ isRateLimited = FALSE
    /\ rateLimitedUntil = 0
    /\ apiKeyStatus = <<>>
    /\ currentConfig = defaultConfig
    /\ calls = <<NoFetch, NoFetch>>

\* getStockData(symbol, timeframe) up to the window its provider fetches;
\* calls[1] is this call, calls[2] the one before.
FetchWindow(op, timeframe) ==
    /\ Cardinality({k \in 1..2 : calls[k].op # "none"}) < MaxFetches
    /\ calls' = <<[op |-> op, timeframe |-> timeframe,
                    standardizedTimeframe |-> StandardizedTimeframe(timeframe),
                    days |-> TimeframeDays(StandardizedTimeframe(timeframe))],
                   calls[1]>>
    /\ UNCHANGED <<queueVars, companyDataCache, isRateLimited, rateLimitedUntil,
                   apiKeyStatus, currentConfig>>

NextTimeframe ==
    \/ \E timeframe \in Timeframes : FetchWindow("getStockData", timeframe)
    \/ \E timeframeParam \in Timeframes : FetchWindow("GET", RouteTimeframe(timeframeParam))

SpecTimeframe == InitTimeframe /\ [][NextTimeframe]_vars

-----------------------------------------------------------------------------
(* Properties of the queue *)

\* C1: in every queue at most one task's execute() is in flight at any time,
\* under every interleaving of enqueue, completion, re-enqueue timer and clear.
SingleFlight == \A p \in Providers : Cardinality(InFlight(p)) <= 1

\* A task is in flight while another request waits behind it, after a
\* rate-limited task has been re-enqueued by its timer.
SingleFlightWitness ==
    \E p \in Providers :
        /\ InFlight(p) # {}
        /\ Len(apiQueue[p].queue) > 0
        /\ \E i \in DOMAIN futures : futures[i].origin = "requeue"

\* C2: the starts of two consecutive dispatches of a queue are at least
\* minDelayMs and at least 60000/requestsPerMinute ms apart.
PacedDispatch ==
    \A p \in Providers :
        apiQueue[p].lastGap # -1 =>
            /\ apiQueue[p].lastGap >= minDelayMs(p)
            /\ apiQueue[p].lastGap * requestsPerMinute(p) >= 60000

\* The second of two dispatches is a re-enqueued request that found the queue idle.
PacedDispatchWitness ==
    \E p \in Providers : \E i \in InFlight(p) :
        /\ apiQueue[p].lastGap # -1
        /\ futures[apiQueue[p].workers[i].request.id].origin = "requeue"
        /\ Len(apiQueue[p].queue) = 0

\* The requests that repeat request i: armed timers and re-enqueued requests.
Repeats(i) ==
    Cardinality({tm \in timers : tm.parent = i})
    + Cardinality({j \in DOMAIN futures : futures[j].parent = i})

\* C11: when a dispatched task fails with an error the queue recognises as
\* rate limiting, the promise of its caller is rejected with the queue's own
\* rate-limit error, and the same task is enqueued again exactly once, with
\* priority + 1 and not earlier than 10 seconds after the failure; a task that
\* ends in any other way is not enqueued again.
RequeuedOnce ==
    /\ \A i \in DOMAIN futures :
          /\ futures[i].thrown # "none" =>
                IF QueueSeesRateLimit(futures[i].thrown)
                THEN /\ futures[i].state = "rejected"
                     /\ futures[i].error = "QueueRateLimit"
                     /\ futures[i].error # futures[i].thrown
                     /\ Repeats(i) = 1
                ELSE /\ futures[i].error # "QueueRateLimit"
                     /\ Repeats(i) = 0
          /\ futures[i].thrown = "none" => Repeats(i) = 0
          /\ futures[i].origin = "requeue" =>
                /\ futures[i].task = futures[futures[i].parent].task
                /\ futures[i].priority = futures[futures[i].parent].priority + 1
                /\ futures[i].waited >= RequeueDelayMs
    /\ \A tm \in timers :
          /\ tm.task = futures[tm.parent].task
          /\ tm.priority = futures[tm.parent].priority + 1

\* A task that failed with a rate-limit error has been enqueued again.
RequeuedOnceWitness ==
    \E i, j \in DOMAIN futures :
        /\ futures[i].error = "QueueRateLimit"
        /\ futures[j].parent = i
        /\ futures[j].priority = futures[i].priority + 1
        /\ futures[j].waited >= RequeueDelayMs

MaxFutures == MaxEnqueues + MaxRateLimits

Pending(i) == i \in DOMAIN futures /\ futures[i].state = "pending"

Cleared(p) ==
    {i \in DOMAIN futures : futures[i].provider = p /\ futures[i].error = "QueueCleared"}

\* C13: clear() rejects the promise of every pending request with 'Queue
\* cleared', leaves the queue empty and returns the number of requests it
\* rejected; a cleared request is never executed; the request in flight is
\* not affected; and the queue goes on dispatching what is enqueued later.
ClearRejectsPending ==
    \A p \in Providers :
        /\ apiQueue[p].cleared = Cardinality(Cleared(p))
        /\ \A i \in Cleared(p) :
              /\ futures[i].state = "rejected" /\ futures[i].settles = 1
              /\ futures[i].thrown = "none"
              /\ \A k \in DOMAIN apiQueue[p].queue : apiQueue[p].queue[k].id # i
              /\ \A w \in DOMAIN apiQueue[p].workers : apiQueue[p].workers[w].request.id # i
        /\ \A w \in InFlight(p) : futures[apiQueue[p].workers[w].request.id].state = "pending"
        /\ Len(apiQueue[p].queue) > 0 =>
              apiQueue[p].processing /\ apiQueue[p].workers # <<>>

\* A request enqueued after clear() had rejected another one is in flight.
ClearRejectsPendingWitness ==
    \E p \in Providers : \E w \in InFlight(p) :
        /\ Cleared(p) # {}
        /\ futures[apiQueue[p].workers[w].request.id].clearsBefore > 0

-----------------------------------------------------------------------------
(* Properties of getStockData *)

Preferred == currentConfig.preferredOHLCProvider
Finished(c) == calls[c].pc = "done"

\* The provider loop of call c ended without a result.
AllProvidersFailed(c) ==
    Finished(c) /\ (calls[c].outcome = "threw" \/ calls[c].from = "finalCache")

\* Every attempt of call c on the preferred provider failed with a
\* rate-limit-classified error and the other provider answered with its bars.
ScenarioACase(c) ==
    /\ Finished(c)
    /\ currentConfig.enableFallback
    /\ calls[c].index = 2
    /\ IsRateLimitError(calls[c].lastError)
    /\ calls[c].from = "provider"
    /\ calls[c].result.timeSeriesData.source = OtherProvider(Preferred)

\* C3: Scenario A.  With fallback enabled, when every attempt on the
\* preferred provider fails with a rate-limit-classified error and the other
\* provider returns N bars, getStockData returns those N bars, the preferred
\* provider's key is in its cooldown when the call returns, and the
\* process-wide rate-limited flag is true.
ScenarioA ==
    \A c \in DOMAIN calls :
        ScenarioACase(c) =>
            /\ calls[c].result = ProviderData(OtherProvider(Preferred))
            /\ calls[c].keyLimitedAtReturn
            /\ calls[c].flagAtReturn

\* Scenario A has happened and the caller has the other provider's bars.
ScenarioAWitness ==
    \E c \in DOMAIN calls :
        ScenarioACase(c) /\ calls[c].result = ProviderData(OtherProvider(Preferred))

\* C4: getStockData tries the preferred provider first and the other provider
\* only if fallback is enabled.  With fallback disabled the other provider is
\* never invoked and no task is enqueued on its queue, and when the preferred
\* provider fails and there is no usable cache entry the call throws the
\* preferred provider's error; with fallback enabled a failure of the
\* preferred provider leads to the other provider.
ProviderOrder ==
    /\ \A c \in DOMAIN calls :
          /\ calls[c].invoked \subseteq
                {Preferred} \cup (IF currentConfig.enableFallback
                                  THEN {OtherProvider(Preferred)} ELSE {})
          /\ OtherProvider(Preferred) \in calls[c].invoked => Preferred \in calls[c].invoked
          /\ (Finished(c) /\ calls[c].lastError # "none" /\ currentConfig.enableFallback)
                => OtherProvider(Preferred) \in calls[c].invoked
          /\ (/\ Finished(c) /\ calls[c].lastError # "none"
              /\ ~currentConfig.enableFallback
              /\ (calls[c].forceRefresh \/ calls[c].storedAtEnd # "live"))
                => /\ calls[c].outcome = "threw"
                   /\ calls[c].invoked = {Preferred}
    /\ ~currentConfig.enableFallback =>
          \A i \in DOMAIN futures : futures[i].provider = Preferred

\* Fallback is disabled, the preferred provider has failed and the call has
\* thrown its error without the other provider being invoked.
ProviderOrderWitness ==
    \E c \in DOMAIN calls :
        /\ ~currentConfig.enableFallback
        /\ Finished(c) /\ calls[c].outcome = "threw"
        /\ calls[c].lastError = "HttpError"
        /\ calls[c].invoked = {Preferred}

\* C5: after a non-forced getStockData succeeded through a provider and wrote
\* the cache, a later non-forced call for the symbol made while the age of
\* the cached data is below the freshness limit returns the cached data and
\* makes no provider call, whatever the rate-limited flag is.
FreshCacheServes ==
    \A c \in DOMAIN calls :
        calls[c].wasFresh =>
            /\ calls[c].invoked = {}
            /\ Finished(c) => calls[c].from \in {"freshCache", "rateLimitedCache"}

\* C6: with the rate-limited flag set and forceRefresh false, a call that
\* finds a non-expired entry with a non-empty series stored for its symbol
\* returns the cached data and invokes no provider.
RateLimitedServesCache ==
    \A c \in DOMAIN calls :
        calls[c].limitedHit =>
            /\ calls[c].invoked = {}
            /\ Finished(c) => calls[c].from \in {"freshCache", "rateLimitedCache"}

\* The rate-limited short circuit has served a call from the cache.
RateLimitedServesCacheWitness ==
    \E c \in DOMAIN calls :
        /\ calls[c].limitedHit
        /\ Finished(c) /\ calls[c].from = "rateLimitedCache"
        /\ calls[c].result.timeSeriesData.bars > 0

ExpiredEntryRetrievable ==
    /\ \A k \in DOMAIN companyDataCache.cache :
          companyDataCache.cache[k].expiresAt < now =>
              CacheGetResult(companyDataCache, k) = Undefined
    /\ \A c \in DOMAIN calls :
          (/\ AllProvidersFailed(c) /\ ~calls[c].forceRefresh
           /\ currentConfig.cacheResults
           /\ calls[c].storedAtEnd = "expired")
             => calls[c].from = "finalCache"

\* C10: with caching enabled and forceRefresh false, getStockData throws only
\* if no entry with a time series is stored for the symbol, live or expired.
ThrowsOnlyWithoutCache ==
    \A c \in DOMAIN calls :
        (/\ Finished(c) /\ calls[c].outcome = "threw"
         /\ ~calls[c].forceRefresh
         /\ currentConfig.cacheResults)
           => calls[c].storedAtEnd = "none"

-----------------------------------------------------------------------------
(* Properties of the retry helper and of the key health tracker *)

\* C14: retryWithBackoff invokes fn at least once and at most maxRetries
\* times; it returns the result of the first attempt that succeeds; when an
\* attempt fails and retryCondition(error) is false or the attempt was the
\* maxRetries-th, that error propagates and fn is not invoked again, and it
\* sleeps for another attempt in no other case.
RetryBounded ==
    \A c \in DOMAIN calls :
        /\ calls[c].fnCalls <= maxRetries
        /\ calls[c].pc \in {"awaitQueue", "caught", "backoff"} => calls[c].fnCalls >= 1
        /\ calls[c].pc = "backoff" =>
              IsRateLimitError(calls[c].error) /\ calls[c].fnCalls < maxRetries
        /\ \A k \in DOMAIN calls[c].runs :
              LET run == calls[c].runs[k]
              IN  /\ run.fnCalls >= 1 /\ run.fnCalls <= maxRetries
                  /\ run.error # "none" =>
                        ~IsRateLimitError(run.error) \/ run.fnCalls = maxRetries
                  /\ run.error = "none" =>
                        /\ k = Len(calls[c].runs)
                        /\ Finished(c) /\ calls[c].from = "provider"
                        /\ calls[c].result.timeSeriesData.bars > 0
                  /\ (run.error # "none" /\ k = Len(calls[c].runs)) =>
                        calls[c].lastError = run.error

\* The first attempt failed with a rate-limit error and the second succeeded.
RetryBoundedWitness ==
    \E c \in DOMAIN calls : \E k \in DOMAIN calls[c].runs :
        /\ calls[c].runs[k].fnCalls = maxRetries
        /\ calls[c].runs[k].error = "none"
        /\ calls[c].runs[k].sawRateLimit

\* C15: retryWhenRateLimited retries only errors classified as rate limiting
\* (after another error fn has run once and the error propagates), and
\* whenever the error of an attempt was classified as rate limiting the
\* process-wide rate-limited flag is true when retryWhenRateLimited ends,
\* whether it returns the result of a later attempt or throws.
RetrySetsFlag ==
    \A c \in DOMAIN calls :
        /\ calls[c].pc = "backoff" => IsRateLimitError(calls[c].error)
        /\ \A k \in DOMAIN calls[c].runs :
              LET run == calls[c].runs[k]
              IN  /\ (run.error # "none" /\ ~run.sawRateLimit) => run.fnCalls = 1
                  /\ run.sawRateLimit => run.flagAfter

\* retryWhenRateLimited has thrown a rate-limit error after two attempts.
RetrySetsFlagWitness ==
    \E c \in DOMAIN calls : \E k \in DOMAIN calls[c].runs :
        /\ calls[c].runs[k].fnCalls = maxRetries
        /\ IsRateLimitError(calls[c].runs[k].error)
        /\ calls[c].runs[k].flagAfter

\* The keys configured for provider p
KeysOf(p) == currentConfig.apiKey[p]

\* C16: a key in its cooldown is never selected: getAvailableApiKey returns
\* the first configured key of the provider that is not rate limited, none
\* when all are, and no request is dispatched for a key that is in its
\* cooldown at the moment of the dispatch.
KeyInCooldownNeverUsed ==
    \A p \in Providers :
        /\ LET key == GetAvailableApiKey(apiKeyStatus, currentConfig, p)
           IN  IF \A i \in DOMAIN KeysOf(p) : IsKeyRateLimited(apiKeyStatus, KeysOf(p)[i])
               THEN key = "null"
               ELSE \E i \in DOMAIN KeysOf(p) :
                       /\ key = KeysOf(p)[i]
                       /\ ~IsKeyRateLimited(apiKeyStatus, key)
                       /\ \A j \in 1..(i - 1) : IsKeyRateLimited(apiKeyStatus, KeysOf(p)[j])
        /\ \A w \in InFlight(p) : ~apiQueue[p].workers[w].keyLimited

\* The first key is in its cooldown and a request made for the second is in flight.
KeyInCooldownNeverUsedWitness ==
    \E w \in InFlight("Finnhub") :
        /\ apiQueue["Finnhub"].workers[w].request.task.apiKey = "fk2"
        /\ IsKeyRateLimited(apiKeyStatus, "fk1")
        /\ ~apiQueue["Finnhub"].workers[w].keyLimited

-----------------------------------------------------------------------------
(* Properties of the cache *)

LastCall == calls[1]

\* The step is a set of a key that has an entry.
SetOnExisting ==
    calls'[1].op = "set" /\ calls'[1].symbol \in DOMAIN companyDataCache.cache

\* C17: set(key, partial) on an existing entry changes only the fields
\* present in partial, lastUpdated and expiresAt: every other field keeps its
\* value, the fields of partial take partial's values, and lastUpdated becomes
\* the current time also when partial carries a lastUpdated of its own.
SetMerges ==
    [][SetOnExisting =>
          LET old == companyDataCache.cache[calls'[1].symbol]
              new == companyDataCache'.cache[calls'[1].symbol]
              data == calls'[1].data
          IN  /\ DOMAIN new = DOMAIN old
              /\ \A f \in DOMAIN new \ {"lastUpdated", "expiresAt"} :
                    new[f] = IF f \in DOMAIN data THEN data[f] ELSE old[f]
              /\ new.lastUpdated = now
              /\ new.expiresAt > now]_vars

\* A profile carrying an old lastUpdated has been set on an entry that holds
\* a series, which is still there.
SetMergesWitness ==
    /\ LastCall.op = "set"
    /\ "lastUpdated" \in DOMAIN LastCall.data
    /\ LastCall.data.lastUpdated # now
    /\ companyDataCache.cache[LastCall.symbol].timeSeriesData.bars > 0
    /\ companyDataCache.cache[LastCall.symbol].companyInfo = "profile"
    /\ companyDataCache.cache[LastCall.symbol].lastUpdated = now

Last(seq) == seq[Len(seq)]

\* C18 as stated: the access order lists the keys most recently used first,
\* a get or a set being a use, and the key a set removes when the capacity is
\* exceeded is the one whose last get or set is the oldest.
LruEviction ==
    /\ companyDataCache.accessOrder = LastCall.recency
    /\ (LastCall.op = "set" /\ LastCall.evicted # "") =>
          /\ LastCall.evicted = Last(Without(LastCall.recencyBefore, LastCall.symbol))
          /\ LastCall.evicted \notin DOMAIN companyDataCache.cache

\* The keys of seq other than k, in their order
Others(seq, k) == Without(seq, k)

\* C18, amended: the access order holds the stored keys, each once.  A set
\* and a get of a live entry move the key to the front, a get of an expired
\* entry moves it to the end, and the other keys keep their order.  When a
\* set makes the count exceed the capacity, the key removed from the map
\* and the order is the last of the order: the key read last while expired,
\* if there is one, else the key whose last get or set is the oldest.
AccessOrderDrivesEviction ==
    /\ [](LET order == companyDataCache.accessOrder
          IN  /\ {order[i] : i \in DOMAIN order} = DOMAIN companyDataCache.cache
              /\ Len(order) = Cardinality(DOMAIN companyDataCache.cache)
              /\ Len(order) <= companyDataCache.maxSize)
    /\ [][LET order == companyDataCache'.accessOrder
              was == companyDataCache.accessOrder
              k == calls'[1].symbol
              evicted == Evicted(companyDataCache, companyDataCache')
          IN  /\ (calls'[1].op = "get" /\ k \in DOMAIN companyDataCache.cache) =>
                    /\ Others(order, k) = Others(was, k)
                    /\ IF IsExpired(companyDataCache.cache[k])
                       THEN Last(order) = k ELSE Head(order) = k
              /\ (calls'[1].op = "get" /\ k \notin DOMAIN companyDataCache.cache) =>
                    order = was
              /\ calls'[1].op = "set" =>
                    /\ Head(order) = k
                    /\ IF Len(Others(was, k)) >= companyDataCache.maxSize
                       THEN /\ evicted = Last(Others(was, k))
                            /\ Others(order, k) =
                                  SubSeq(Others(was, k), 1, Len(Others(was, k)) - 1)
                       ELSE /\ evicted = ""
                            /\ Others(order, k) = Others(was, k)]_vars

\* A set has evicted the key that was used last, by a get while it was
\* expired, and kept a key used before it.
AccessOrderDrivesEvictionWitness ==
    /\ LastCall.op = "set" /\ LastCall.evicted # ""
    /\ LastCall.evictedExpired
    /\ LastCall.evicted = Head(LastCall.recencyBefore)
    /\ LastCall.evicted # LastCall.symbol

-----------------------------------------------------------------------------
(* Properties of getCompanyNewsWithFallback *)

ChainSet == {NewsChain(currentConfig)[i] : i \in DOMAIN NewsChain(currentConfig)}

\* C19: getCompanyNewsWithFallback never throws: it returns the news of a
\* provider that answered, and an empty list when every provider of its
\* chain has failed; with fallback disabled it invokes the preferred news
\* provider only.
NewsNeverThrows ==
    /\ \A c \in DOMAIN calls :
          /\ calls[c].outcome # "threw"
          /\ calls[c].invoked \subseteq ChainSet
          /\ calls[c].pc = "done" =>
                /\ calls[c].outcome = "returned"
                /\ calls[c].failed = ChainSet => calls[c].result = EmptyNews
                /\ calls[c].result # EmptyNews =>
                      calls[c].result.source \in calls[c].invoked \ calls[c].failed
    /\ ~currentConfig.enableFallback =>
          /\ ChainSet = {currentConfig.preferredNewsProvider}
          /\ \A i \in DOMAIN futures :
                futures[i].provider = currentConfig.preferredNewsProvider
          /\ apiQueue[OtherProvider(currentConfig.preferredNewsProvider)] = NewQueue

NewsNeverThrowsWitness ==
    \E c \in DOMAIN calls :
        /\ calls[c].pc = "done"
        /\ calls[c].failed = Providers
        /\ calls[c].result = EmptyNews
        /\ calls[c].outcome = "returned"

-----------------------------------------------------------------------------
(* Properties of getCompanyProfileWithFallback *)

ProfileChainSet == {ProfileChain(currentConfig)[i] : i \in DOMAIN ProfileChain(currentConfig)}

\* C20: getCompanyProfileWithFallback throws only if the cache holds no
\* profile of the symbol and every provider of its chain failed; whenever a
\* profile of the symbol is stored in the cache, fresh or stale, the call
\* returns a profile.
ProfileThrowsOnlyWithoutCache ==
    \A c \in DOMAIN calls :
        calls[c].pc = "done" =>
            /\ calls[c].outcome = "threw" =>
                  /\ calls[c].stored = "none"
                  /\ calls[c].failed = ProfileChainSet
            /\ calls[c].stored # "none" =>
                  calls[c].outcome = "returned" /\ calls[c].result # "null"

\* Every provider has failed while an expired profile was stored.
ProfileThrowsOnlyWithoutCacheWitness ==
    \E c \in DOMAIN calls :
        /\ calls[c].pc = "done"
        /\ calls[c].failed = ProfileChainSet
        /\ calls[c].stored = "expired"

\* C21: with the process-wide flag set and a profile of the symbol that has
\* not expired in the cache, getCompanyProfileWithFallback returns that
\* profile, whatever its age, and invokes no provider.
FlagServesCachedProfile ==
    \A c \in DOMAIN calls :
        calls[c].limitedHit =>
            /\ calls[c].pc = "done"
            /\ calls[c].outcome = "returned"
            /\ calls[c].from = "rateLimitedCache"
            /\ calls[c].result # "null"
            /\ calls[c].request = 0

\* Such a call has returned a profile older than 30 minutes.
FlagServesCachedProfileWitness ==
    \E c \in DOMAIN calls :
        /\ calls[c].limitedHit
        /\ calls[c].pc = "done"
        /\ calls[c].age >= ProfileFreshMs

-----------------------------------------------------------------------------
(* Properties of the rate-limit handling of the caller-facing operations *)

SomeKeyMarked(status) == \E k \in DOMAIN status : status[k].rateLimitedUntil > now

\* C22: when a caller-facing operation has caught a provider error that is
\* classified as rate limiting, the key used is marked rate limited and the
\* process-wide flag is set.
RateLimitMarksKeyAndFlag ==
    [][\A c \in DOMAIN calls :
          (calls'[c].lastError # calls[c].lastError /\ IsRateLimitError(calls'[c].lastError))
          => (isRateLimited' /\ SomeKeyMarked(apiKeyStatus'))]_vars

\* A news call has caught a rate-limit error, the flag is set, no key is marked.
RateLimitMarksKeyAndFlagWitness ==
    \E c \in DOMAIN calls :
        /\ IsRateLimitError(calls[c].lastError)
        /\ isRateLimited
        /\ ~SomeKeyMarked(apiKeyStatus)

-----------------------------------------------------------------------------
(* Properties of the cache writes of getStockData *)

\* The step is one of call c: its start, the arrival of the response to its
\* request, or a step of its own code.
StepOfCall(c) ==
    \/ c \notin DOMAIN calls
    \/ /\ c \in DOMAIN calls
       /\ \/ calls'[c].pc # calls[c].pc
          \/ /\ calls[c].pc = "awaitQueue"
             /\ futures[calls[c].request].state = "pending"
             /\ futures'[calls[c].request].state # "pending"

\* The call returns a provider's result in this step.
ReturnsFromProvider(c) ==
    /\ c \in DOMAIN calls
    /\ calls[c].pc = "awaitQueue"
    /\ calls'[c].pc = "done"
    /\ calls'[c].from = "provider"

\* C23: a getStockData call with forceRefresh = true leaves the entries of
\* the cache as they are, whether it succeeds or fails; a successful call
\* without forceRefresh, caching enabled, merges its result into the entry
\* of its symbol.
ForcedRefreshKeepsCache ==
    [][\A c \in DOMAIN calls' :
          /\ (calls'[c].forceRefresh /\ StepOfCall(c))
                => companyDataCache'.cache = companyDataCache.cache
          /\ (~calls'[c].forceRefresh /\ currentConfig.cacheResults /\ ReturnsFromProvider(c))
                => LET symbol == calls'[c].symbol
                       existing == IF symbol \in DOMAIN companyDataCache.cache
                                   THEN companyDataCache.cache[symbol]
                                   ELSE FreshEntry(symbol)
                       entry == companyDataCache'.cache[symbol]
                   IN  /\ symbol \in DOMAIN companyDataCache'.cache
                       /\ entry.timeSeriesData = calls'[c].result.timeSeriesData
                       /\ entry.significantMoves = calls'[c].result.significantMoves
                       /\ entry.timestamp = now
                       /\ entry.lastUpdated = now
                       /\ entry.name = existing.name
                       /\ entry.companyInfo = existing.companyInfo]_vars

\* A forced call has returned the result of Alpha Vantage and the series is
\* stored for its symbol.
ForcedRefreshKeepsCacheWitness ==
    \E c \in DOMAIN calls :
        /\ calls[c].forceRefresh
        /\ calls[c].pc = "done"
        /\ calls[c].from = "provider"
        /\ calls[c].symbol \in DOMAIN companyDataCache.cache
        /\ \A d \in DOMAIN calls : d # c => calls[d].forceRefresh

-----------------------------------------------------------------------------
(* Properties of the order of the pending queue *)

\* C24: the pending queue of every APIRequestQueue is sorted by priority
\* descending and, within a priority, by enqueue time ascending, requests
\* of equal priority standing in the order of their enqueue; so no request
\* is dispatched while an earlier one of its priority is still pending.
QueueSorted ==
    \A p \in Providers :
        LET queue == apiQueue[p].queue
        IN  /\ \A i, j \in DOMAIN queue :
                  i < j => \/ queue[i].priority > queue[j].priority
                           \/ /\ queue[i].priority = queue[j].priority
                              /\ queue[i].timestamp <= queue[j].timestamp
                              /\ queue[i].id < queue[j].id
            /\ \A w \in InFlight(p) : \A j \in DOMAIN queue :
                  queue[j].priority = apiQueue[p].workers[w].request.priority
                  => queue[j].id > apiQueue[p].workers[w].request.id

\* A request enqueued later stands in front of an earlier one, and two
\* requests of one priority are pending behind each other.
QueueSortedWitness ==
    \E p \in Providers :
        LET queue == apiQueue[p].queue
        IN  /\ Len(queue) >= 2
            /\ queue[1].id > queue[2].id
            /\ queue[1].priority > queue[2].priority

\* C25: when a dispatched task fails with an error the queue does not
\* recognise as rate limiting, the caller's promise is rejected with that
\* very error and the queue never enqueues the task again.
PlainFailureRejects ==
    \A i \in DOMAIN futures :
        (/\ futures[i].thrown \notin {"none", "ok"}
         /\ Phrases(futures[i].thrown) \cap {"rate limit", "too many requests"} = {})
        => /\ futures[i].state = "rejected"
           /\ futures[i].error = futures[i].thrown
           /\ futures[i].settles = 1
           /\ Repeats(i) = 0

\* A task has failed with 'HTTP error! status: 429', which the queue does
\* not recognise, and its queue has gone on to dispatch another request.
PlainFailureRejectsWitness ==
    \E i \in DOMAIN futures :
        /\ futures[i].thrown = "Http429"
        /\ futures[i].state = "rejected"
        /\ \E j \in DOMAIN futures :
              j > i /\ futures[j].provider = futures[i].provider /\ futures[j].thrown # "none"

-----------------------------------------------------------------------------
(* Properties of the backoff delays *)

\* C26: in retryWithBackoff the wait before each retry, before jitter, is
\* min(d * backoffFactor, maxDelayMs), d being the previous wait, and
\* initialDelayMs before the first retry; the waits never decrease, never
\* exceed maxDelayMs, and the applied wait is within 100 ms of them.
BackoffWaits ==
    LET run == calls[1]
        o == run.options
        Previous(k) == IF k = 1 THEN o.initialDelayMs ELSE run.waits[k - 1]
    IN  /\ Len(run.waits) = run.attempt - 1
        /\ Len(run.applied) = Len(run.waits)
        /\ \A k \in DOMAIN run.waits :
              /\ run.waits[k] = IF Previous(k) * o.backoffFactor < o.maxDelayMs
                                THEN Previous(k) * o.backoffFactor ELSE o.maxDelayMs
              /\ run.waits[k] <= o.maxDelayMs
              /\ k > 1 => run.waits[k] >= run.waits[k - 1]
              /\ run.applied[k] - run.waits[k] <= 100
              /\ run.waits[k] - run.applied[k] <= 100

\* Three retries, the first wait below the ceiling and the last at it.
BackoffWaitsWitness ==
    /\ Len(calls[1].waits) = 3
    /\ calls[1].waits[1] < calls[1].waits[2]
    /\ calls[1].waits[3] = calls[1].options.maxDelayMs
    /\ calls[1].applied[3] # calls[1].waits[3]

-----------------------------------------------------------------------------
(* Properties of the expiration time of set() *)

\* C27: set stores expiresAt = now + T, where T is options.expirationTime
\* when given; else 7 days when the partial carries a profile, with or
\* without a series; else 1 hour in market hours and 12 hours outside them
\* when it carries a non-empty series; else 24 hours.
ExpiresAtByPayload ==
    calls[1].op = "set" =>
        LET data == calls[1].data
            options == calls[1].options
            T == IF "expirationTime" \in DOMAIN options THEN options.expirationTime
                 ELSE IF "companyInfo" \in DOMAIN data THEN 7 * 24 * HourMs
                 ELSE IF "timeSeriesData" \in DOMAIN data /\ data.timeSeriesData.bars > 0
                      THEN (IF calls[1].isMarketHours THEN HourMs ELSE 12 * HourMs)
                 ELSE 24 * HourMs
        IN  companyDataCache.cache[calls[1].symbol].expiresAt = now + T

\* set was called with expirationTime 0 and the entry does not expire now.
ExpiresAtByPayloadWitness ==
    /\ calls[1].op = "set"
    /\ "expirationTime" \in DOMAIN calls[1].options
    /\ calls[1].options.expirationTime = 0
    /\ companyDataCache.cache[calls[1].symbol].expiresAt > now

-----------------------------------------------------------------------------
(* Properties of the cache in a browser *)

\* C28: an entry leaves the cache map only in the eviction step of a set
\* that made the count exceed the capacity, and then it is the last key of
\* the access order; a get, of an expired entry too, and the cleanup timer
\* remove nothing and leave every entry as it is.
OnlyEvictionRemoves ==
    [][LET gone == DOMAIN companyDataCache.cache \ DOMAIN companyDataCache'.cache
           others == Without(companyDataCache.accessOrder, calls'[1].symbol)
       IN  /\ gone # {} =>
                 /\ calls'[1].op = "set"
                 /\ Len(others) >= companyDataCache.maxSize
                 /\ gone = {others[Len(others)]}
           /\ calls'[1].op \in {"get", "cleanup"} =>
                 \A k \in DOMAIN companyDataCache.cache :
                     companyDataCache'.cache[k] = companyDataCache.cache[k]]_vars

\* An expired entry has been read, or the cleanup has run over one, and it
\* is still in the map.
OnlyEvictionRemovesWitness ==
    /\ \/ /\ calls[1].op = "get"
          /\ calls[1].result = "miss"
          /\ calls[1].symbol \in DOMAIN companyDataCache.cache
          /\ IsExpired(companyDataCache.cache[calls[1].symbol])
       \/ /\ calls[1].op = "cleanup"
          /\ \E k \in DOMAIN companyDataCache.cache : IsExpired(companyDataCache.cache[k])
    /\ Cardinality(DOMAIN companyDataCache.cache) = companyDataCache.maxSize

\* C29: after every cache operation, a load from the durable store and an
\* eviction included, a key is in the cache map exactly when it occurs in
\* the access order, and it occurs there once.
MapMatchesOrder ==
    LET order == companyDataCache.accessOrder
    IN  /\ \A k \in DOMAIN companyDataCache.cache :
              Cardinality({i \in DOMAIN order : order[i] = k}) = 1
        /\ \A i \in DOMAIN order : order[i] \in DOMAIN companyDataCache.cache

\* A get has loaded its key from localStorage into a full cache.
MapMatchesOrderWitness ==
    /\ calls[1].op = "get"
    /\ calls[1].loaded
    /\ Len(companyDataCache.accessOrder) > companyDataCache.maxSize

\* C30: a failure of localStorage does not reach the caller of the cache:
\* a set whose write or removal fails leaves the entries in memory and the
\* access order as the set does when localStorage works, and a get whose
\* read fails returns a miss and changes nothing.
StoreFailuresSwallowed ==
    [][/\ calls'[1].op = "set" =>
             LET mem == CacheSet(companyDataCache, calls'[1].symbol, StorePartial, FALSE)
             IN  /\ companyDataCache'.cache = mem.cache
                 /\ companyDataCache'.accessOrder = mem.accessOrder
                 /\ calls'[1].symbol \in DOMAIN companyDataCache'.cache
                 /\ Head(companyDataCache'.accessOrder) = calls'[1].symbol
       /\ (/\ calls'[1].op = "get"
           /\ calls'[1].readFails
           /\ calls'[1].symbol \notin DOMAIN companyDataCache.cache) =>
             /\ calls'[1].result = "miss"
             /\ companyDataCache' = companyDataCache]_vars

\* A set whose write and removal both failed has evicted a key: the new
\* entry is in memory only, the evicted one in localStorage only.
StoreFailuresSwallowedWitness ==
    /\ calls[1].op = "set"
    /\ calls[1].writeFails
    /\ calls[1].removeFails
    /\ calls[1].symbol \in DOMAIN companyDataCache.cache
    /\ calls[1].symbol \notin DOMAIN companyDataCache.localStorage
    /\ \E k \in DOMAIN companyDataCache.localStorage : k \notin DOMAIN companyDataCache.cache

-----------------------------------------------------------------------------
(* Properties of the key health *)

\* The errorCount of a key, 0 for a key that has no status
ErrorCountOf(status, key) == IF key \in DOMAIN status THEN status[key].errorCount ELSE 0

\* C31: when the awaited request of a call fails with a rate-limit error,
\* the errorCount of the call's key grows by one and the key is rate limited
\* until now + 60 s; when it succeeds, the key's errorCount is 0, its
\* rateLimitedUntil is 0 (the key is not rate limited) and its lastUsed is
\* now; a key without status is not rate limited, a rate-limited key stays so
\* until it succeeds or its time has come, and no step removes a status.
KeyHealthTransitions ==
    [][/\ DOMAIN apiKeyStatus \subseteq DOMAIN apiKeyStatus'
       /\ \A p \in Providers : \A i \in DOMAIN KeysOf(p) :
             KeysOf(p)[i] \notin DOMAIN apiKeyStatus =>
                ~IsKeyRateLimited(apiKeyStatus, KeysOf(p)[i])
       /\ \A key \in DOMAIN apiKeyStatus :
             (apiKeyStatus[key].rateLimitedUntil > now
              /\ ~(apiKeyStatus'[key].rateLimitedUntil > now)) =>
                \/ apiKeyStatus'[key].rateLimitedUntil = now
                \/ apiKeyStatus'[key].rateLimitedUntil = 0
       /\ \A c \in DOMAIN calls :
             (c \in DOMAIN calls' /\ calls[c].pc = "awaitQueue"
              /\ calls'[c].pc # "awaitQueue") =>
                LET key == calls[c].apiKey
                    future == futures[calls[c].request]
                IN  /\ future.state = "resolved" =>
                          /\ key \in DOMAIN apiKeyStatus'
                          /\ apiKeyStatus'[key].errorCount = 0
                          /\ apiKeyStatus'[key].rateLimitedUntil = 0
                          /\ apiKeyStatus'[key].lastUsed = now
                          /\ ~IsKeyRateLimited(apiKeyStatus', key)
                    /\ (future.state = "rejected" /\ IsRateLimitError(future.error)) =>
                          /\ key \in DOMAIN apiKeyStatus'
                          /\ apiKeyStatus'[key].errorCount =
                                ErrorCountOf(apiKeyStatus, key) + 1
                          /\ apiKeyStatus'[key].rateLimitedUntil = now + KeyCooldownMs
                          /\ IsKeyRateLimited(apiKeyStatus', key)
                    /\ \A other \in DOMAIN apiKeyStatus \ {key} :
                          apiKeyStatus'[other] = apiKeyStatus[other]]_vars

\* A key has been marked rate limited and is in its cooldown, and another
\* key has the status a success leaves.
KeyHealthTransitionsWitness ==
    \E key, other \in DOMAIN apiKeyStatus :
        /\ apiKeyStatus[key].errorCount = 1
        /\ IsKeyRateLimited(apiKeyStatus, key)
        /\ apiKeyStatus[other].errorCount = 0
        /\ apiKeyStatus[other].rateLimitedUntil = 0

-----------------------------------------------------------------------------
(* Properties of the significant moves *)

\* The days of the window but the given one
OtherDays(days, i) == SubSeq(days, 1, i - 1) \o SubSeq(days, i + 1, Len(days))

\* The day changed by more than 2% on more than 1.5 times the average volume
\* of the other days of the window
StandsOut(days, i) ==
    /\ Abs(days[i].percentageChange) > SignificantChange
    /\ Len(days) > 1
    /\ 2 * days[i].volume * (Len(days) - 1) > 3 * SumVolume(OtherDays(days, i))

\* C32: the significant moves of a fetched window are exactly its days with
\* |percentageChange| > 2 and a volume above 1.5 times the average volume of
\* the other days of the window.
MovesAgainstOtherDays ==
    calls[1].op = "moves" =>
        LET days == calls[1].timeSeriesData
            moves == calls[1].significantMoves
        IN  {moves[i] : i \in DOMAIN moves} =
                {days[i] : i \in {j \in DOMAIN days : StandsOut(days, j)}}

\* A day of a three-day window rose 4% on 1.8 times the average volume of
\* the other two, and the moves found are none.
MovesAgainstOtherDaysWitness ==
    /\ calls[1].op = "moves"
    /\ Len(calls[1].timeSeriesData) = 3
    /\ \E i \in 1..3 :
          /\ calls[1].timeSeriesData[i].volume = 180
          /\ StandsOut(calls[1].timeSeriesData, i)
    /\ calls[1].significantMoves = <<>>

-----------------------------------------------------------------------------
(* Properties of the normalisation *)

\* C33: every cache lookup and cache write of a getStockData call uses the
\* uppercased symbol as its key, the lookup of the rate-limited short
\* circuit included.
CacheKeyNormalized ==
    \A c \in DOMAIN calls : calls[c].cacheKeys \subseteq {ToUpperCase(calls[c].rawSymbol)}

\* A call for 'aapl' made under the flag while a live series was stored for
\* 'AAPL' has looked the cache up with the symbol as passed and has gone on
\* to a provider.
CacheKeyNormalizedWitness ==
    \E c \in DOMAIN calls :
        /\ calls[c].rawSymbol = "aapl"
        /\ calls[c].limitedHit
        /\ "aapl" \in calls[c].cacheKeys
        /\ calls[c].invoked # {}

-----------------------------------------------------------------------------
(* Properties of the provider loop *)

\* C34: a provider whose keys are all in their cooldown is given up at once:
\* the error of its fetch function is followed by no backoff sleep and no
\* second invocation for the same provider.
UnavailableProviderSkipped ==
    \A c \in DOMAIN calls :
        calls[c].error = "AllKeysLimited" => calls[c].pc # "backoff"

\* A call whose first invocation of a provider found every key in its
\* cooldown sleeps before invoking the same provider again; nothing has been
\* enqueued for it.
UnavailableProviderSkippedWitness ==
    \E c \in DOMAIN calls :
        /\ calls[c].pc = "backoff"
        /\ calls[c].error = "AllKeysLimited"
        /\ calls[c].attempt = 1
        /\ calls[c].fnCalls = 1
        /\ calls[c].request = 0

\* The requests of a provider's queue whose task has been executed to its
\* end: their promise is settled.
Executed(p) == {i \in DOMAIN futures : futures[i].provider = p /\ futures[i].state # "pending"}

\* C35: the first getStockData call of a behaviour causes at most maxRetries
\* executions of a provider task per provider: the requests its fetch
\* function enqueued and the ones the queue re-enqueued on their behalf
\* together are executed at most maxRetries times.
ExecutionsPerProvider ==
    Len(calls) = 1 => \A p \in Providers : Cardinality(Executed(p)) <= maxRetries

\* One call: its first request failed with a rate-limit error, its retry
\* enqueued a second request, and the queue re-enqueued the first; all three
\* have been executed.
ExecutionsPerProviderWitness ==
    /\ Len(calls) = 1
    /\ \E p \in Providers : \E i, j, k \in Executed(p) :
          /\ futures[i].origin = "caller"
          /\ futures[j].origin = "caller"
          /\ i < j
          /\ futures[k].origin = "requeue"
          /\ futures[k].parent = i

-----------------------------------------------------------------------------
(* Properties of the re-enqueue *)

\* Nothing queued, nothing in flight, processing false and no timer armed
QueueIdle(p) ==
    /\ apiQueue[p].queue = <<>>
    /\ apiQueue[p].workers = <<>>
    /\ ~apiQueue[p].processing
    /\ \A tm \in timers : tm.provider # p

\* C36: callers enqueue finitely many tasks, so from some point on every
\* queue is idle for good, also when tasks fail with a rate-limit error each
\* time they are executed.
QueuesIdleAtLast == <>[](\A p \in Providers : QueueIdle(p))

\* A task whose promise was rejected long ago is in the queue once more,
\* re-enqueued for at least the second time.
QueuesIdleAtLastWitness ==
    \E p \in Providers : \E k \in DOMAIN apiQueue[p].queue :
        /\ apiQueue[p].queue[k].priority = MaxPriority
        /\ futures[apiQueue[p].queue[k].id].state = "rejected"
        /\ futures[apiQueue[p].queue[k].id].priority <= MaxPriority - 2

-----------------------------------------------------------------------------
(* Properties of the capacity *)

\* C37: once a set has completed, the cache tracks at most maxSize keys, in
\* its map and in its access order, whatever gets and loads from
\* localStorage came before; and the key just set has its entry.
CapacityAfterSet ==
    calls[1].op = "set" =>
        /\ Cardinality(DOMAIN companyDataCache.cache) <= companyDataCache.maxSize
        /\ Len(companyDataCache.accessOrder) <= companyDataCache.maxSize
        /\ calls[1].symbol \in DOMAIN companyDataCache.cache

\* A set has completed, has evicted a key and has kept its own, and the
\* cache, loaded from localStorage before, still tracks more keys than
\* maxSize.
CapacityAfterSetWitness ==
    /\ calls[1].op = "set"
    /\ calls[1].symbol \in DOMAIN companyDataCache.cache
    /\ Head(companyDataCache.accessOrder) = calls[1].symbol
    /\ Cardinality(DOMAIN companyDataCache.cache) > companyDataCache.maxSize
    /\ Len(companyDataCache.accessOrder) > companyDataCache.maxSize

-----------------------------------------------------------------------------
(* Properties of the termination *)

\* How far a call has come: the provider, the attempt and the position
\* within the attempt, then the end of the loop, then the end of the call.
CallRank(call) ==
    CASE call.pc = "attempt"    -> 4 * (maxRetries * (call.index - 1) + call.attempt - 1)
      [] call.pc = "awaitQueue" -> 4 * (maxRetries * (call.index - 1) + call.attempt - 1) + 1
      [] call.pc = "caught"     -> 4 * (maxRetries * (call.index - 1) + call.attempt - 1) + 2
      [] call.pc = "backoff"    -> 4 * (maxRetries * (call.index - 1) + call.attempt - 1) + 3
      [] call.pc = "allFailed"  -> 4 * maxRetries * Cardinality(Providers)
      [] OTHER                  -> 4 * maxRetries * Cardinality(Providers) + 1

-----------------------------------------------------------------------------
(* Properties of the timeframe *)

CanonicalTimeframes == {"1w", "1m", "3m", "6m", "1y"}

\* C39: the timeframe normalisation of getStockData maps into the canonical
\* vocabulary and maps each of its outputs to itself, so a call with the
\* canonical token fetches the same window as the call before it whose
\* token was normalised to that token.
TimeframeIdempotent ==
    calls[1].op # "none" =>
        /\ calls[1].standardizedTimeframe \in CanonicalTimeframes
        /\ StandardizedTimeframe(calls[1].standardizedTimeframe)
              = calls[1].standardizedTimeframe
        /\ (calls[2].op # "none" /\ calls[1].timeframe = calls[2].standardizedTimeframe) =>
              calls[1].days = calls[2].days

\* getStockData(symbol, '1mo') fetched 30 days and getStockData(symbol, '1m')
\* after it 90.
TimeframeIdempotentWitness ==
    /\ calls[2].op = "getStockData" /\ calls[2].timeframe = "1mo" /\ calls[2].days = 30
    /\ calls[1].op = "getStockData" /\ calls[1].timeframe = "1m" /\ calls[1].days = 90

-----------------------------------------------------------------------------
(* Properties of the rate-limited flag *)

\* rateLimitedUntil has passed
FlagExpired == rateLimitedUntil > 0 /\ now > rateLimitedUntil

\* C40: isRateLimited is true exactly when rateLimitedUntil > 0, and a
\* getStockData call started after rateLimitedUntil has passed does not
\* treat the process as rate limited: it is not served by the rate-limited
\* short circuit, whether or not checkRateLimit was called in between.
FlagExpires ==
    /\ [](isRateLimited <=> rateLimitedUntil > 0)
    /\ [][(Len(calls') = Len(calls) + 1 /\ FlagExpired) =>
             calls'[Len(calls')].from # "rateLimitedCache"]_vars

\* A call has just been served by the rate-limited short circuit although
\* rateLimitedUntil has passed; the flag is still set.
FlagExpiresWitness ==
    /\ isRateLimited
    /\ FlagExpired
    /\ Len(calls) > 0
    /\ calls[Len(calls)].pc = "done"
    /\ calls[Len(calls)].from = "rateLimitedCache"
    /\ calls[Len(calls)].storedAtEnd = "live"

====
